---- MODULE Spec2Model ----
(***************************************************************************)
(* Model of the team_me CRM (src/team_me_firebase.py, src/blog/routes.py): *)
(* a Flask application over Firestore collections and a Storage bucket.    *)
(*                                                                         *)
(* Strings are sequences of symbols (<<"a","b">>); the empty string is     *)
(* <<>>.  Python's None is the value None.  A Firestore document is a      *)
(* function from field names to values; a collection is a function from    *)
(* document ids (naturals, streamed in ascending id order) to documents.   *)
(* Each request handler is one action; resp records the response to the    *)
(* last request.                                                           *)
(***************************************************************************)
EXTENDS Integers, Sequences, FiniteSets, TLC

\* edits holds the edit requests being served step by step
VARIABLES session, buyers, sellers, buyer_followups, seller_followups,
          blog_posts, blobs, clock, resp, edits

vars == <<session, buyers, sellers, buyer_followups, seller_followups,
          blog_posts, blobs, clock, resp, edits>>

dbvars == <<buyers, sellers, buyer_followups, seller_followups, blog_posts>>

----------------------------------------------------------------------------
(* Bounds                                                                  *)

MaxDocs == 3
MaxClock == 1
MaxPhotos == 2
MaxBlobs == 2

----------------------------------------------------------------------------
(* Python values and string primitives                                     *)

None == <<"None">>

Whitespace == {" ", "\n"}

Alphabet == <<"\n", " ", ",", "0", "1", "2", "3", "4", "5", "6", "7", "8",
              "9", "A", "B", "C", "T", "a", "b", "c">>

Ord(c) == IF \E i \in DOMAIN Alphabet : Alphabet[i] = c
          THEN CHOOSE i \in DOMAIN Alphabet : Alphabet[i] = c
          ELSE Len(Alphabet) + 1

RECURSIVE LStrip(_)
LStrip(s) == IF s # <<>> /\ Head(s) \in Whitespace THEN LStrip(Tail(s)) ELSE s

RECURSIVE RStrip(_)
RStrip(s) == IF s # <<>> /\ s[Len(s)] \in Whitespace
             THEN RStrip(SubSeq(s, 1, Len(s) - 1)) ELSE s

Strip(s) == RStrip(LStrip(s))

LowerSym(c) == CASE c = "A" -> "a" [] c = "B" -> "b" [] c = "C" -> "c"
                 [] c = "T" -> "t" [] c = "JPG" -> "jpg" [] c = "IG" -> "ig"
                 [] OTHER -> c

Lower(s) == [i \in DOMAIN s |-> LowerSym(s[i])]

\* Python's "q in s" on strings
IsSubstr(q, s) == \E i \in 0..(Len(s) - Len(q)) : SubSeq(s, i + 1, i + Len(q)) = q

\* Python's "<" on strings (lexicographic by code point)
RECURSIVE StrLess(_, _)
StrLess(a, b) == IF b = <<>> THEN FALSE
                 ELSE IF a = <<>> THEN TRUE
                 ELSE IF Head(a) = Head(b) THEN StrLess(Tail(a), Tail(b))
                 ELSE Ord(Head(a)) < Ord(Head(b))

Falsy(v) == v = None \/ v = <<>>

\* dict.get(k, default)
Get(d, k, default) == IF k \in DOMAIN d THEN d[k] ELSE default

\* "d.get(k) or ''"
GetOr(d, k) == IF Falsy(Get(d, k, None)) THEN <<>> ELSE d[k]

\* form.get(k, "").strip()
\* variant: the submitted value is not trimmed
FormRaw(form, k) == Get(form, k, <<>>)

FormStrip(form, k) == Strip(Get(form, k, <<>>))

Reverse(s) == [i \in DOMAIN s |-> s[Len(s) + 1 - i]]

Digit(n) == Alphabet[n + 4]

\* datetime.now().isoformat(): fixed-width, zero-padded, "T" separator
isoformat(t) == <<Digit(t \div 10), "T", Digit(t % 10)>>

\* datetime.now().strftime("%Y-%m-%d %H:%M"): blank separator
strftime(t) == <<Digit(t \div 10), " ", Digit(t % 10)>>

IdStr(n) == <<Digit(n)>>

EmptyDict == [k \in {} |-> <<>>]

----------------------------------------------------------------------------
(* Firestore helpers                                                       *)

RECURSIVE SeqOfIds(_)
SeqOfIds(S) == IF S = {} THEN <<>>
               ELSE LET m == CHOOSE x \in S : \A y \in S : x <= y
                    IN <<m>> \o SeqOfIds(S \ {m})

doc_to_dict(id, doc) == ("id" :> IdStr(id)) @@ doc

\* [doc_to_dict(d) for d in db.collection(c).stream()]
StreamDicts(coll) == LET ids == SeqOfIds(DOMAIN coll)
                     IN [i \in DOMAIN ids |-> doc_to_dict(ids[i], coll[ids[i]])]

\* doc_ref.update(fields): merge into the stored document
\* variant: a field the document already has keeps its value
DocUpdateKeeping(doc, fields) == doc @@ fields

DocUpdate(doc, fields) == fields @@ doc

\* the ids db.collection(c).document() may generate
FreshIds(coll) == (1..MaxDocs) \ DOMAIN coll

RemoveKey(coll, id) == [k \in DOMAIN coll \ {id} |-> coll[k]]

\* Python's list.sort(key=..., reverse=...) on <<key, item>> pairs: stable
InsertSorted(x, s, rev) ==
    LET stays(e) == IF rev THEN ~StrLess(e[1], x[1]) ELSE ~StrLess(x[1], e[1])
        k == Cardinality({i \in DOMAIN s : stays(s[i])})
    IN SubSeq(s, 1, k) \o <<x>> \o SubSeq(s, k + 1, Len(s))

RECURSIVE SortPairs(_, _)
SortPairs(ps, rev) ==
    IF ps = <<>> THEN <<>>
    ELSE InsertSorted(ps[Len(ps)], SortPairs(SubSeq(ps, 1, Len(ps) - 1), rev), rev)

FilterSeq(s, Keep(_)) ==
    LET RECURSIVE F(_)
        F(t) == IF t = <<>> THEN <<>>
                ELSE IF Keep(Head(t)) THEN <<Head(t)>> \o F(Tail(t)) ELSE F(Tail(t))
    IN F(s)

----------------------------------------------------------------------------
(* Users, password hashes, responses                                       *)

generate_password_hash(pw) == <<"pbkdf2$">> \o pw

\* variant: any stored hash is accepted
check_password_hash_any(h, pw) == h # <<>>

check_password_hash(h, pw) == h # <<>> /\ h = generate_password_hash(pw)

\* the users collection is written only by the create-user CLI command
users == (1 :> [email |-> <<"a">>, name |-> <<"A">>,
                password_hash |-> generate_password_hash(<<"1">>)])

LoggedIn == "user_id" \in DOMAIN session

Response(route, kind, to, msg) ==
    [route |-> route, kind |-> kind, to |-> to, flash |-> msg,
     items |-> <<>>, form |-> EmptyDict, cats |-> <<>>, body |-> <<>>]

\* @login_required: without user_id in the session, redirect to the login
\* form and do not run the view
login_required(route, View) ==
    IF ~LoggedIn
    THEN /\ resp' = Response(route, "redirect", "login", "login_first")
         /\ UNCHANGED <<session, dbvars, blobs, clock>>
    ELSE View

\* the edit requests that may be in progress at once
Requests == {1, 2}

NoEdits == [req |-> [r \in Requests |-> [pc |-> "idle"]], log |-> <<>>]

TotalDocs == Cardinality(DOMAIN buyers) + Cardinality(DOMAIN sellers)
             + Cardinality(DOMAIN buyer_followups)
             + Cardinality(DOMAIN seller_followups)
             + Cardinality(DOMAIN blog_posts)

IdSpace == 1..MaxDocs

----------------------------------------------------------------------------
(* Login / logout                                                          *)

LoginEmails == {<<>>, <<"a">>, <<" ", "A">>, <<"b">>}
LoginPasswords == {<<>>, <<"1">>, <<"2">>}

\* what a successful login stores in the session
LoginSession(uid) ==
    ("user_id" :> IdStr(uid))
    @@ ("user_name" :> (IF Falsy(users[uid].name) THEN users[uid].email ELSE users[uid].name))
    @@ ("user_email" :> users[uid].email)

login_post(email_raw, password) ==
    LET email == Lower(Strip(email_raw))
        docs == SeqOfIds({u \in DOMAIN users : users[u].email = email})
    IN  /\ UNCHANGED <<dbvars, blobs, clock>>
        /\ IF email = <<>> \/ password = <<>>
           THEN /\ resp' = Response("login", "redirect", "login", "enter_credentials")
                /\ UNCHANGED session
           ELSE IF docs = <<>>
           THEN /\ resp' = Response("login", "redirect", "login", "bad_credentials")
                /\ UNCHANGED session
           ELSE LET user == users[docs[1]]
                IN IF ~check_password_hash(user.password_hash, password)
                   THEN /\ resp' = Response("login", "redirect", "login", "bad_credentials")
                        /\ UNCHANGED session
                   ELSE /\ session' = LoginSession(docs[1]) @@ session
                        /\ resp' = Response("login", "redirect", "buyers", "welcome")

login_get ==
    /\ resp' = Response("login", "render", "login.html", "")
    /\ UNCHANGED <<session, dbvars, blobs, clock>>

\* variant: the user's name and email are dropped, the id is left
logout_keeping_id ==
    /\ session' = [k \in DOMAIN session \ {"user_name", "user_email"} |-> session[k]]
    /\ resp' = Response("logout", "redirect", "login", "logged_out")
    /\ UNCHANGED <<dbvars, blobs, clock>>

logout ==
    /\ session' = EmptyDict
    /\ resp' = Response("logout", "redirect", "login", "logged_out")
    /\ UNCHANGED <<dbvars, blobs, clock>>

index ==
    /\ resp' = Response("index", "redirect", IF LoggedIn THEN "buyers" ELSE "login", "")
    /\ UNCHANGED <<session, dbvars, blobs, clock>>

\* the wall clock read by datetime.now() advances between requests
Tick ==
    /\ clock < MaxClock
    /\ clock' = clock + 1
    /\ UNCHANGED <<session, dbvars, blobs, resp>>

----------------------------------------------------------------------------
(* Image upload and deletion (Firebase Storage)                            *)

ALLOWED_IMAGE_EXTENSIONS == {<<"jpg">>, <<"jpeg">>, <<"png">>, <<"gif">>, <<"webp">>}

DefaultBucket == "team-me-98acf.firebasestorage.app"

\* an uploaded file: its name, and what decoding / storing it will do
NoFile == [filename |-> <<>>, outcome |-> "ok"]
GoodFile == [filename |-> <<"p", ".", "JPG">>, outcome |-> "ok"]
BadExtFile == [filename |-> <<"p", ".", "exe">>, outcome |-> "ok"]
NoExtFile == [filename |-> <<"p">>, outcome |-> "ok"]
UndecodableFile == [filename |-> <<"p", ".", "png">>, outcome |-> "decode_error"]
StorageErrorFile == [filename |-> <<"p", ".", "jpg">>, outcome |-> "storage_error"]

Suffixes == {"u1", "u2"}

\* filename.rsplit(".", 1)[-1].lower()
FileExt(filename) ==
    LET dots == {i \in DOMAIN filename : filename[i] = "."}
        last == CHOOSE i \in dots : \A j \in dots : j <= i
    IN Lower(SubSeq(filename, last + 1, Len(filename)))

public_url(bucket, path) ==
    <<"https://", "storage.googleapis.com", "/", bucket, "/">> \o path

\* result of upload_image_to_storage: the URL (or None), whether it raised,
\* and the blobs it created
upload_image_to_storage(file, folder, object_id, suffix) ==
    LET none == [url |-> None, raised |-> FALSE, created |-> {}]
    IN IF file.filename = <<>> THEN none
       ELSE IF \A i \in DOMAIN file.filename : file.filename[i] # "." THEN none
       ELSE IF FileExt(file.filename) \notin ALLOWED_IMAGE_EXTENSIONS THEN none
       ELSE IF file.outcome # "ok"
            THEN [url |-> None, raised |-> TRUE, created |-> {}]
       ELSE LET blob_path == <<folder, "/">> \o object_id \o <<"_", suffix, ".">>
                               \o FileExt(file.filename)
            IN [url |-> public_url(DefaultBucket, blob_path), raised |-> FALSE,
                created |-> {[bucket |-> DefaultBucket, path |-> blob_path]}]

\* the upload loop of sellers_new / buyer_edit / seller_edit:
\* for f in files: if f and f.filename: url = upload(...); if url: append
RECURSIVE UploadAll(_, _, _, _)
UploadAll(files, sfx, folder, object_id) ==
    IF files = <<>> THEN [urls |-> <<>>, raised |-> FALSE, created |-> {}]
    ELSE LET r == upload_image_to_storage(Head(files), folder, object_id, Head(sfx))
         IN IF r.raised THEN [urls |-> <<>>, raised |-> TRUE, created |-> {}]
            ELSE LET rest == UploadAll(Tail(files), Tail(sfx), folder, object_id)
                 IN [urls |-> (IF r.url = None THEN <<>> ELSE <<r.url>>) \o rest.urls,
                     raised |-> rest.raised,
                     created |-> r.created \cup rest.created]

FirstIndexOf(s, c) == IF \E i \in DOMAIN s : s[i] = c
                      THEN CHOOSE i \in DOMAIN s : s[i] = c /\ \A j \in 1..(i - 1) : s[j] # c
                      ELSE 0

NoBlob == [ok |-> FALSE, bucket |-> "", path |-> <<>>]

Blob(bucket, path) == [ok |-> TRUE, bucket |-> bucket, path |-> path]

\* the blob (bucket, path) that delete_storage_file_by_url resolves a URL to,
\* or NoBlob when it is empty or has none of the three known shapes
ParseStorageUrl(url) ==
    IF url = <<>> \/ url = None THEN NoBlob
    ELSE IF Head(url) = "gs://"
    THEN LET rest == Tail(url)
             k == FirstIndexOf(rest, "/")
         IN IF rest = <<>> \/ k = 0 \/ k = Len(rest) \/ k = 1 THEN NoBlob
            ELSE Blob(rest[1], SubSeq(rest, k + 1, Len(rest)))
    ELSE IF Len(url) < 3 THEN NoBlob
    ELSE LET netloc == url[2]
             path == SubSeq(url, 3, Len(url))
             o == FirstIndexOf(path, "/o/")
         IN IF netloc = "firebasestorage.googleapis.com" /\ o # 0
            THEN IF o = Len(path) THEN NoBlob
                 ELSE Blob(DefaultBucket, SubSeq(path, o + 1, Len(path)))
            ELSE IF netloc \in {"storage.googleapis.com", "firebasestorage.googleapis.com"}
            THEN LET segs == IF path # <<>> /\ Head(path) = "/" THEN Tail(path) ELSE path
                     k == FirstIndexOf(segs, "/")
                 IN IF k <= 1 \/ k = Len(segs) THEN NoBlob
                    ELSE Blob(segs[1], SubSeq(segs, k + 1, Len(segs)))
            ELSE NoBlob

\* the try body of delete_storage_file_by_url: the storage after it, and
\* whether a storage call in it raised
DeleteAttempt(store, url, storage_fails) ==
    LET b == ParseStorageUrl(url)
    IN IF ~b.ok THEN [store |-> store, raised |-> FALSE]
       ELSE IF storage_fails THEN [store |-> store, raised |-> TRUE]
       ELSE [store |-> store \ {[bucket |-> b.bucket, path |-> b.path]}, raised |-> FALSE]

\* variant: no try / except around the storage calls
delete_storage_file_by_url_unguarded(store, url, storage_fails) ==
    IF url = <<>> \/ url = None THEN [store |-> store, raised |-> FALSE]
    ELSE DeleteAttempt(store, url, storage_fails)

\* delete_storage_file_by_url(url): "if not url: return", then the try body
\* with "except Exception" printing the error
delete_storage_file_by_url(store, url, storage_fails) ==
    IF url = <<>> \/ url = None THEN [store |-> store, raised |-> FALSE]
    ELSE LET r == DeleteAttempt(store, url, storage_fails)
         IN IF r.raised THEN [store |-> store, raised |-> FALSE] ELSE r

\* for url in urls: delete_storage_file_by_url(url); an exception ends the loop
RECURSIVE delete_storage_files(_, _, _)
delete_storage_files(store, urls, storage_fails) ==
    IF urls = <<>> THEN [store |-> store, raised |-> FALSE]
    ELSE LET r == delete_storage_file_by_url(store, Head(urls), storage_fails)
         IN IF r.raised THEN r
            ELSE delete_storage_files(r.store, Tail(urls), storage_fails)

----------------------------------------------------------------------------
(* Buyers                                                                  *)

BuyerFormFields == {"name", "phone", "email", "line_id", "source", "level",
                    "intent_type", "rent_min", "rent_max", "budget_min",
                    "budget_max", "preferred_areas", "property_type",
                    "room_range", "car_need", "job", "family_info",
                    "requirement_must", "requirement_nice", "other_background",
                    "note"}

BuyerEditFields == BuyerFormFields \cup {"stage"}

\* submitted forms (request.form)
BuyerForm1 ==
    ("name" :> <<"a">>) @@ ("phone" :> <<"1">>) @@ ("level" :> <<"A">>)
    @@ ("stage" :> <<"contact">>) @@ ("intent_type" :> <<"buy">>)
    @@ ("source" :> <<"IG">>)

BuyerForm2 ==
    ("name" :> <<" ", "b", "a">>) @@ ("phone" :> <<"2">>) @@ ("level" :> <<"B">>)
    @@ ("stage" :> <<"viewing">>) @@ ("note" :> <<"a", ",", "b">>)

BuyerFormBlank ==
    ("name" :> <<" ">>) @@ ("phone" :> <<"1">>) @@ ("level" :> <<"A">>)
    @@ ("stage" :> <<"contact">>)

BuyerForms == {BuyerForm1, BuyerForm2, BuyerFormBlank}

\* the keyword filter of the buyers and sellers lists
KeywordMatch(b, q) == IsSubstr(q, GetOr(b, "name")) \/ IsSubstr(q, GetOr(b, "phone"))

\* variant: non-matching records are removed from the list while it is being
\* iterated, so the record after each removed one is never examined
RECURSIVE RemoveWhileIterating(_, _)
RemoveWhileIterating(list, q) ==
    IF list = <<>> THEN <<>>
    ELSE IF KeywordMatch(Head(list), q)
         THEN <<Head(list)>> \o RemoveWhileIterating(Tail(list), q)
    ELSE IF Tail(list) = <<>> THEN <<>>
    ELSE <<Head(Tail(list))>> \o RemoveWhileIterating(Tail(Tail(list)), q)

KeywordFilterInPlace(list, q) ==
    IF q # <<>> THEN RemoveWhileIterating(list, q) ELSE list

KeywordFilter(list, q) ==
    IF q # <<>> THEN FilterSeq(list, LAMBDA b : KeywordMatch(b, q)) ELSE list

\* an equality filter: if value: [b for b in list if b.get(field) == value]
\* variant: a record without the field passes the filter
EqualityFilterDefault(list, field, value) ==
    IF value # <<>> THEN FilterSeq(list, LAMBDA b : Get(b, field, value) = value)
    ELSE list

EqualityFilter(list, field, value) ==
    IF value # <<>> THEN FilterSeq(list, LAMBDA b : Get(b, field, None) = value)
    ELSE list

\* the source filter: substring of the stored source
SourceFilter(list, source) ==
    IF source # <<>> THEN FilterSeq(list, LAMBDA b : IsSubstr(source, GetOr(b, "source")))
    ELSE list

parse_created_at(b) == GetOr(b, "created_at")

SortByKey(list, Key(_), rev) ==
    LET ps == [i \in DOMAIN list |-> <<Key(list[i]), list[i]>>]
        sorted == SortPairs(ps, rev)
    IN [i \in DOMAIN sorted |-> sorted[i][2]]

\* the sort step of the buyers and sellers lists
\* variant: created_at_desc sorts without reverse=True
SortListForward(list, sort_by) ==
    CASE sort_by = "created_at_asc" -> SortByKey(list, parse_created_at, FALSE)
      [] sort_by = "created_at_desc" -> SortByKey(list, parse_created_at, FALSE)
      [] sort_by = "name_asc" -> SortByKey(list, LAMBDA b : GetOr(b, "name"), FALSE)
      [] sort_by = "name_desc" -> SortByKey(list, LAMBDA b : GetOr(b, "name"), TRUE)
      [] OTHER -> list

SortList(list, sort_by) ==
    CASE sort_by = "created_at_asc" -> SortByKey(list, parse_created_at, FALSE)
      [] sort_by = "created_at_desc" -> SortByKey(list, parse_created_at, TRUE)
      [] sort_by = "name_asc" -> SortByKey(list, LAMBDA b : GetOr(b, "name"), FALSE)
      [] sort_by = "name_desc" -> SortByKey(list, LAMBDA b : GetOr(b, "name"), TRUE)
      [] OTHER -> list

\* query strings (request.args) of the list pages
NoQuery == [q |-> <<>>, level |-> <<>>, intent_type |-> <<>>, stage |-> <<>>,
            source |-> <<>>, sort_by |-> "created_at_desc"]

\* one equality filter each, the other filters empty
EnumFilters ==
    { <<"level", <<"A">>>>, <<"level", <<"B">>>>, <<"stage", <<"contact">>>>,
      <<"stage", <<"viewing">>>>, <<"intent_type", <<"buy">>>> }

EnumQuery(f) == [NoQuery EXCEPT ![f[1]] = f[2]]

EnumQueries == {EnumQuery(f) : f \in EnumFilters}

KeywordQueries ==
    { [NoQuery EXCEPT !.q = <<"a">>, !.sort_by = "name_asc"],
      [NoQuery EXCEPT !.q = <<" ", "1">>, !.sort_by = "bogus"],
      [NoQuery EXCEPT !.q = <<"b", "a">>] }

ListQueries ==
    EnumQueries \cup KeywordQueries
    \cup { NoQuery,
           [NoQuery EXCEPT !.sort_by = "created_at_asc"],
           [NoQuery EXCEPT !.source = <<"IG">>, !.stage = <<" ", "contact">>,
                           !.level = <<"A">>, !.sort_by = "name_desc"] }

BuyersList(coll, qy) ==
    LET l0 == StreamDicts(coll)
        l1 == KeywordFilter(l0, Strip(qy.q))
        l2 == EqualityFilter(l1, "level", Strip(qy.level))
        l3 == EqualityFilter(l2, "intent_type", Strip(qy.intent_type))
        l4 == EqualityFilter(l3, "stage", Strip(qy.stage))
        l5 == SourceFilter(l4, Strip(qy.source))
    IN SortList(l5, qy.sort_by)

buyers_list(qy) ==
    login_required("buyers",
        /\ resp' = [Response("buyers", "render", "buyers.html", "")
                      EXCEPT !.items = BuyersList(buyers, qy)]
        /\ UNCHANGED <<session, dbvars, blobs, clock>>)

BuyersNewFiles == {NoFile, GoodFile, BadExtFile, UndecodableFile}

\* the document buyers_new writes (before the optional photo_url)
BuyerNewData(form, now, sess) ==
    [k \in BuyerFormFields |-> FormStrip(form, k)]
    @@ ("created_at" :> isoformat(now))
    @@ ("created_by_id" :> Get(sess, "user_id", None))
    @@ ("created_by_name" :> Get(sess, "user_name", None))

buyers_new(form, file, new_id, suffix) ==
    login_required("buyers_new",
        LET name == FormStrip(form, "name")
            up == upload_image_to_storage(file, "buyers", IdStr(new_id), suffix)
            data == BuyerNewData(form, clock, session)
        IN IF name = <<>>
           THEN /\ resp' = Response("buyers_new", "redirect", "buyers", "name_required")
                /\ UNCHANGED <<session, dbvars, blobs, clock>>
           ELSE /\ TotalDocs < MaxDocs
                /\ new_id \in FreshIds(buyers)
                /\ IF up.raised
                   THEN /\ resp' = Response("buyers_new", "error", "500", "")
                        /\ UNCHANGED <<session, dbvars, blobs, clock>>
                   ELSE /\ Cardinality(blobs \cup up.created) <= MaxBlobs
                        /\ blobs' = blobs \cup up.created
                        /\ buyers' = (new_id :> (IF up.url # None
                                                 THEN ("photo_url" :> up.url) @@ data
                                                 ELSE data)) @@ buyers
                        /\ resp' = Response("buyers_new", "redirect", "buyers", "buyer_added")
                        /\ UNCHANGED <<session, sellers, buyer_followups,
                                       seller_followups, blog_posts, clock>>)

FollowupFormFields == {"channel", "content", "next_action", "next_contact_date"}

FollowupForm1 ==
    ("contact_time" :> <<"0", " ", "5">>) @@ ("channel" :> <<"a">>)
    @@ ("content" :> <<" ", "b">>)

FollowupForm2 == ("channel" :> <<"b">>) @@ ("next_action" :> <<"c">>)

FollowupForms == {FollowupForm1, FollowupForm2}

\* the followups of one parent, as buyer_detail / seller_detail list them:
\* where(field == parent_id), then sort by contact_time, newest first
FollowupsOf(coll, field, parent_id) ==
    SortByKey(FilterSeq(StreamDicts(coll), LAMBDA f : Get(f, field, None) = parent_id),
              LAMBDA x : Get(x, "contact_time", <<>>), TRUE)

buyer_detail(buyer_id) ==
    login_required("buyer_detail",
        /\ UNCHANGED <<session, dbvars, blobs, clock>>
        /\ IF buyer_id \notin DOMAIN buyers
           THEN resp' = Response("buyer_detail", "redirect", "buyers", "buyer_not_found")
           ELSE resp' = [Response("buyer_detail", "render", "buyer_detail.html", "")
                           EXCEPT !.form = doc_to_dict(buyer_id, buyers[buyer_id]),
                                  !.items = FollowupsOf(buyer_followups, "buyer_id",
                                                        IdStr(buyer_id))])

\* the document written by add_buyer_followup / add_seller_followup
NewFollowup(parent_field, parent_id, form, now, sess) ==
    LET ct == FormStrip(form, "contact_time")
    IN (parent_field :> IdStr(parent_id))
       @@ ("contact_time" :> (IF ct = <<>> THEN strftime(now) ELSE ct))
       @@ [k \in FollowupFormFields |-> FormStrip(form, k)]
       @@ ("created_at" :> isoformat(now))
       @@ ("created_by_id" :> Get(sess, "user_id", None))
       @@ ("created_by_name" :> Get(sess, "user_name", None))

add_buyer_followup(buyer_id, form, new_id) ==
    login_required("add_buyer_followup",
        /\ TotalDocs < MaxDocs
        /\ new_id \in FreshIds(buyer_followups)
        /\ buyer_followups' = (new_id :> NewFollowup("buyer_id", buyer_id, form, clock, session))
                              @@ buyer_followups
        /\ resp' = Response("add_buyer_followup", "redirect", "buyer_detail", "followup_added")
        /\ UNCHANGED <<session, buyers, sellers, seller_followups, blog_posts,
                       blobs, clock>>)

\* the parsed delete_photos checkboxes: int(idx), ValueError ignored
ParseInt(s) ==
    LET t == Strip(s)
        neg == t # <<>> /\ Head(t) = "-"
        ds == IF t # <<>> /\ Head(t) \in {"-", "+"} THEN Tail(t) ELSE t
        isdigits == ds # <<>> /\ \A i \in DOMAIN ds : ds[i] \in {"0", "1", "2", "3", "4", "5", "6", "7", "8", "9"}
        RECURSIVE Val(_)
        Val(d) == IF d = <<>> THEN 0
                  ELSE 10 * Val(SubSeq(d, 1, Len(d) - 1)) + (Ord(d[Len(d)]) - Ord("0"))
    IN [ok |-> isdigits, val |-> IF isdigits THEN (IF neg THEN 0 - Val(ds) ELSE Val(ds)) ELSE 0]

DeleteIndexes(raw) == {ParseInt(raw[i]).val : i \in {j \in DOMAIN raw : ParseInt(raw[j]).ok}}

\* the photo list an edit starts from: photo_urls, else the legacy photo_url
CurrentPhotos(doc) ==
    LET l == IF "photo_urls" \in DOMAIN doc THEN doc["photo_urls"] ELSE <<>>
    IN IF l # <<>> THEN l
       ELSE IF ~Falsy(Get(doc, "photo_url", None)) THEN <<doc["photo_url"]>>
       ELSE <<>>

\* variant: the positions are counted from one
PickPhotosFromOne(list, idx, picked) ==
    LET RECURSIVE P(_)
        P(i) == IF i > Len(list) THEN <<>>
                ELSE IF (i \in idx) = picked THEN <<list[i]>> \o P(i + 1)
                ELSE P(i + 1)
    IN P(1)

\* [url for i, url in enumerate(list) if (i in idx) == keep] with 0-based i
PickPhotos(list, idx, picked) ==
    LET RECURSIVE P(_)
        P(i) == IF i > Len(list) THEN <<>>
                ELSE IF ((i - 1) \in idx) = picked THEN <<list[i]>> \o P(i + 1)
                ELSE P(i + 1)
    IN P(1)

\* variant: photo_url is written only when a photo is left
PhotoEditFirstIfAny(doc, delete_raw, files, sfx, folder, object_id) ==
    LET cur == CurrentPhotos(doc)
        idx == DeleteIndexes(delete_raw)
        up == UploadAll(files, sfx, folder, object_id)
        new_photos == PickPhotos(cur, idx, FALSE) \o up.urls
    IN [deleted_urls |-> PickPhotos(cur, idx, TRUE),
        raised |-> up.raised,
        created |-> up.created,
        fields |-> IF new_photos # <<>>
                   THEN ("photo_urls" :> new_photos) @@ ("photo_url" :> new_photos[1])
                   ELSE ("photo_urls" :> new_photos)]

\* the photo part of buyer_edit / seller_edit
PhotoEdit(doc, delete_raw, files, sfx, folder, object_id) ==
    LET cur == CurrentPhotos(doc)
        idx == DeleteIndexes(delete_raw)
        up == UploadAll(files, sfx, folder, object_id)
        new_photos == PickPhotos(cur, idx, FALSE) \o up.urls
    IN [deleted_urls |-> PickPhotos(cur, idx, TRUE),
        raised |-> up.raised,
        created |-> up.created,
        fields |-> ("photo_urls" :> new_photos)
                   @@ ("photo_url" :> (IF new_photos # <<>> THEN new_photos[1] ELSE <<>>))]

\* the photo inputs of an edit request: the delete_photos checkboxes, the
\* uploaded files with the random suffix each gets, and whether storage fails
NoPhotoEdit == [delete_raw |-> <<>>, files |-> <<>>, sfx |-> <<>>, storage_fails |-> FALSE]

PhotoEdits ==
    { NoPhotoEdit,
      [NoPhotoEdit EXCEPT !.delete_raw = << <<"0">> >>],
      [NoPhotoEdit EXCEPT !.delete_raw = << <<"x">>, <<"-", "1">>, <<"1">> >>,
                          !.files = <<GoodFile>>, !.sfx = <<"u1">>,
                          !.storage_fails = TRUE],
      [NoPhotoEdit EXCEPT !.files = <<BadExtFile, GoodFile>>, !.sfx = <<"u1", "u2">>],
      [NoPhotoEdit EXCEPT !.files = <<GoodFile, UndecodableFile>>, !.sfx = <<"u2", "u1">>] }

\* the uploads of a sellers_new request
NewUploads ==
    { [files |-> <<>>, sfx |-> <<>>],
      [files |-> <<GoodFile, NoExtFile>>, sfx |-> <<"u1", "u2">>],
      [files |-> <<StorageErrorFile>>, sfx |-> <<"u1">>] }

\* the text fields buyer_edit writes
BuyerUpdated(form, now, sess) ==
    [k \in BuyerEditFields |-> FormStrip(form, k)]
    @@ ("updated_at" :> isoformat(now))
    @@ ("updated_by_id" :> Get(sess, "user_id", None))
    @@ ("updated_by_name" :> Get(sess, "user_name", None))

buyer_edit(buyer_id, method, form, delete_raw, files, sfx, storage_fails) ==
    login_required("buyer_edit",
        IF buyer_id \notin DOMAIN buyers
        THEN /\ resp' = Response("buyer_edit", "redirect", "buyers", "buyer_not_found")
             /\ UNCHANGED <<session, dbvars, blobs, clock>>
        ELSE LET buyer == doc_to_dict(buyer_id, buyers[buyer_id])
                 name == FormStrip(form, "name")
                 fields == [k \in BuyerEditFields |-> FormStrip(form, k)]
                 updated == BuyerUpdated(form, clock, session)
                 ph == PhotoEdit(buyer, delete_raw, files, sfx, "buyers", IdStr(buyer_id))
             IN IF method = "GET"
                THEN /\ resp' = [Response("buyer_edit", "render", "buyer_edit.html", "")
                                   EXCEPT !.form = buyer]
                     /\ UNCHANGED <<session, dbvars, blobs, clock>>
                ELSE IF name = <<>>
                THEN /\ resp' = [Response("buyer_edit", "render", "buyer_edit.html", "name_required")
                                   EXCEPT !.form = fields @@ buyer]
                     /\ UNCHANGED <<session, dbvars, blobs, clock>>
                ELSE IF ph.raised
                THEN /\ Cardinality(blobs \cup ph.created) <= MaxBlobs
                     /\ resp' = Response("buyer_edit", "error", "500", "")
                     /\ blobs' = blobs \cup ph.created
                     /\ UNCHANGED <<session, dbvars, clock>>
                ELSE /\ Cardinality(blobs \cup ph.created) <= MaxBlobs
                     /\ Len(ph.fields["photo_urls"]) <= MaxPhotos
                     /\ buyers' = [buyers EXCEPT ![buyer_id] =
                                      DocUpdate(@, ph.fields @@ updated)]
                     /\ LET del == delete_storage_files(blobs \cup ph.created,
                                                     ph.deleted_urls, storage_fails)
                        IN /\ blobs' = del.store
                           /\ resp' = IF del.raised
                                      THEN Response("buyer_edit", "error", "500", "")
                                      ELSE Response("buyer_edit", "redirect",
                                                    "buyer_detail", "buyer_updated")
                     /\ UNCHANGED <<session, sellers, buyer_followups,
                                    seller_followups, blog_posts, clock>>)

\* delete_by_field(collection, field, value)
\* variant: only the first match is deleted
delete_by_field_first(coll, field_name, field_value) ==
    LET docs == {d \in DOMAIN coll : Get(coll[d], field_name, None) = field_value}
        first == {d \in docs : \A e \in docs : d <= e}
    IN [k \in DOMAIN coll \ first |-> coll[k]]

delete_by_field(coll, field_name, field_value) ==
    LET docs == {d \in DOMAIN coll : Get(coll[d], field_name, None) = field_value}
    IN [k \in DOMAIN coll \ docs |-> coll[k]]

buyer_delete(buyer_id) ==
    login_required("buyer_delete",
        /\ buyer_followups' = delete_by_field(buyer_followups, "buyer_id", IdStr(buyer_id))
        /\ buyers' = RemoveKey(buyers, buyer_id)
        /\ resp' = Response("buyer_delete", "redirect", "buyers", "buyer_deleted")
        /\ UNCHANGED <<session, sellers, seller_followups, blog_posts, blobs, clock>>)

\* the fields written by buyer_followup_edit / seller_followup_edit
FollowupUpdate(form) ==
    LET ct == FormStrip(form, "contact_time")
    IN ("contact_time" :> (IF ct = <<>> THEN strftime(clock) ELSE ct))
       @@ [k \in FollowupFormFields |-> FormStrip(form, k)]

buyer_followup_edit(buyer_id, followup_id, method, form) ==
    login_required("buyer_followup_edit",
        IF followup_id \notin DOMAIN buyer_followups
        THEN /\ resp' = Response("buyer_followup_edit", "redirect", "buyer_detail",
                                 "followup_not_found")
             /\ UNCHANGED <<session, dbvars, blobs, clock>>
        ELSE IF method = "GET"
        THEN /\ resp' = [Response("buyer_followup_edit", "render",
                                  "buyer_followup_edit.html", "")
                           EXCEPT !.form = doc_to_dict(followup_id,
                                                       buyer_followups[followup_id])]
             /\ UNCHANGED <<session, dbvars, blobs, clock>>
        ELSE /\ buyer_followups' = [buyer_followups EXCEPT ![followup_id] =
                                       DocUpdate(@, FollowupUpdate(form))]
             /\ resp' = Response("buyer_followup_edit", "redirect", "buyer_detail",
                                 "followup_updated")
             /\ UNCHANGED <<session, buyers, sellers, seller_followups, blog_posts,
                            blobs, clock>>)

buyer_followup_delete(buyer_id, followup_id) ==
    login_required("buyer_followup_delete",
        /\ buyer_followups' = RemoveKey(buyer_followups, followup_id)
        /\ resp' = Response("buyer_followup_delete", "redirect", "buyer_detail",
                            "followup_deleted")
        /\ UNCHANGED <<session, buyers, sellers, seller_followups, blog_posts,
                       blobs, clock>>)

----------------------------------------------------------------------------
(* Sellers                                                                 *)

SellerFormFields == {"name", "phone", "email", "line_id", "address",
                     "property_type", "level", "stage", "reason",
                     "expected_price", "min_price", "timeline",
                     "occupancy_status", "contract_end_date", "note"}

SellerForm1 ==
    ("name" :> <<"a">>) @@ ("phone" :> <<"1">>) @@ ("level" :> <<"A">>)
    @@ ("stage" :> <<"contact">>) @@ ("source" :> <<"IG">>)

SellerForm2 ==
    ("name" :> <<"b", " ">>) @@ ("phone" :> <<"2", "1">>) @@ ("level" :> <<"B">>)
    @@ ("stage" :> <<"listed">>) @@ ("address" :> <<"c", "\"">>)

SellerFormBlank ==
    ("name" :> <<" ">>) @@ ("phone" :> <<"1">>) @@ ("level" :> <<"A">>)
    @@ ("stage" :> <<"contact">>)

SellerForms == {SellerForm1, SellerForm2, SellerFormBlank}

SellersList(coll, qy) ==
    LET l0 == StreamDicts(coll)
        l1 == KeywordFilter(l0, Strip(qy.q))
        l2 == EqualityFilter(l1, "level", Strip(qy.level))
        l3 == EqualityFilter(l2, "stage", Strip(qy.stage))
        l4 == SourceFilter(l3, Strip(qy.source))
    IN SortList(l4, qy.sort_by)

sellers_list(qy) ==
    login_required("sellers",
        /\ resp' = [Response("sellers", "render", "sellers.html", "")
                      EXCEPT !.items = SellersList(sellers, qy)]
        /\ UNCHANGED <<session, dbvars, blobs, clock>>)

\* the document sellers_new writes
SellerNewData(form, photo_urls, now, sess) ==
    [k \in SellerFormFields |-> FormStrip(form, k)]
    @@ ("created_at" :> isoformat(now))
    @@ ("created_by_id" :> Get(sess, "user_id", None))
    @@ ("created_by_name" :> Get(sess, "user_name", None))
    @@ ("photo_urls" :> photo_urls)
    @@ ("photo_url" :> (IF photo_urls # <<>> THEN photo_urls[1] ELSE <<>>))

sellers_new(form, files, sfx, new_id) ==
    login_required("sellers_new",
        LET name == FormStrip(form, "name")
            up == UploadAll(files, sfx, "sellers", IdStr(new_id))
            data == SellerNewData(form, up.urls, clock, session)
        IN IF name = <<>>
           THEN /\ resp' = Response("sellers_new", "redirect", "sellers", "name_required")
                /\ UNCHANGED <<session, dbvars, blobs, clock>>
           ELSE /\ TotalDocs < MaxDocs
                /\ new_id \in FreshIds(sellers)
                /\ Cardinality(blobs \cup up.created) <= MaxBlobs
                /\ IF up.raised
                   THEN /\ resp' = Response("sellers_new", "error", "500", "")
                        /\ blobs' = blobs \cup up.created
                        /\ UNCHANGED <<session, dbvars, clock>>
                   ELSE /\ blobs' = blobs \cup up.created
                        /\ sellers' = (new_id :> data) @@ sellers
                        /\ resp' = Response("sellers_new", "redirect", "sellers", "seller_added")
                        /\ UNCHANGED <<session, buyers, buyer_followups,
                                       seller_followups, blog_posts, clock>>)

seller_detail(seller_id) ==
    login_required("seller_detail",
        /\ UNCHANGED <<session, dbvars, blobs, clock>>
        /\ IF seller_id \notin DOMAIN sellers
           THEN resp' = Response("seller_detail", "redirect", "sellers", "seller_not_found")
           ELSE resp' = [Response("seller_detail", "render", "seller_detail.html", "")
                           EXCEPT !.form = doc_to_dict(seller_id, sellers[seller_id]),
                                  !.items = FollowupsOf(seller_followups, "seller_id",
                                                        IdStr(seller_id))])

add_seller_followup(seller_id, form, new_id) ==
    login_required("add_seller_followup",
        /\ TotalDocs < MaxDocs
        /\ new_id \in FreshIds(seller_followups)
        /\ seller_followups' = (new_id :> NewFollowup("seller_id", seller_id, form, clock, session))
                               @@ seller_followups
        /\ resp' = Response("add_seller_followup", "redirect", "seller_detail", "followup_added")
        /\ UNCHANGED <<session, buyers, sellers, buyer_followups, blog_posts,
                       blobs, clock>>)

\* the text fields seller_edit writes
SellerUpdated(form, now, sess) ==
    [k \in SellerFormFields |-> FormStrip(form, k)]
    @@ ("updated_at" :> isoformat(now))
    @@ ("updated_by_id" :> Get(sess, "user_id", None))
    @@ ("updated_by_name" :> Get(sess, "user_name", None))

seller_edit(seller_id, method, form, delete_raw, files, sfx, storage_fails) ==
    login_required("seller_edit",
        IF seller_id \notin DOMAIN sellers
        THEN /\ resp' = Response("seller_edit", "redirect", "sellers", "seller_not_found")
             /\ UNCHANGED <<session, dbvars, blobs, clock>>
        ELSE LET seller == doc_to_dict(seller_id, sellers[seller_id])
                 updated == SellerUpdated(form, clock, session)
                 ph == PhotoEdit(seller, delete_raw, files, sfx, "sellers", IdStr(seller_id))
             IN IF method = "GET"
                THEN /\ resp' = [Response("seller_edit", "render", "seller_edit.html", "")
                                   EXCEPT !.form = seller]
                     /\ UNCHANGED <<session, dbvars, blobs, clock>>
                ELSE IF ph.raised
                THEN /\ Cardinality(blobs \cup ph.created) <= MaxBlobs
                     /\ resp' = Response("seller_edit", "error", "500", "")
                     /\ blobs' = blobs \cup ph.created
                     /\ UNCHANGED <<session, dbvars, clock>>
                ELSE /\ Cardinality(blobs \cup ph.created) <= MaxBlobs
                     /\ Len(ph.fields["photo_urls"]) <= MaxPhotos
                     /\ sellers' = [sellers EXCEPT ![seller_id] =
                                       DocUpdate(@, ph.fields @@ updated)]
                     /\ LET del == delete_storage_files(blobs \cup ph.created,
                                                     ph.deleted_urls, storage_fails)
                        IN /\ blobs' = del.store
                           /\ resp' = IF del.raised
                                      THEN Response("seller_edit", "error", "500", "")
                                      ELSE Response("seller_edit", "redirect",
                                                    "seller_detail", "seller_updated")
                     /\ UNCHANGED <<session, buyers, buyer_followups,
                                    seller_followups, blog_posts, clock>>)

seller_delete(seller_id) ==
    login_required("seller_delete",
        /\ seller_followups' = delete_by_field(seller_followups, "seller_id", IdStr(seller_id))
        /\ sellers' = RemoveKey(sellers, seller_id)
        /\ resp' = Response("seller_delete", "redirect", "sellers", "seller_deleted")
        /\ UNCHANGED <<session, buyers, buyer_followups, blog_posts, blobs, clock>>)

seller_followup_edit(seller_id, followup_id, method, form) ==
    login_required("seller_followup_edit",
        IF followup_id \notin DOMAIN seller_followups
        THEN /\ resp' = Response("seller_followup_edit", "redirect", "seller_detail",
                                 "followup_not_found")
             /\ UNCHANGED <<session, dbvars, blobs, clock>>
        ELSE IF method = "GET"
        THEN /\ resp' = [Response("seller_followup_edit", "render",
                                  "seller_followup_edit.html", "")
                           EXCEPT !.form = doc_to_dict(followup_id,
                                                       seller_followups[followup_id])]
             /\ UNCHANGED <<session, dbvars, blobs, clock>>
        ELSE /\ seller_followups' = [seller_followups EXCEPT ![followup_id] =
                                        DocUpdate(@, FollowupUpdate(form))]
             /\ resp' = Response("seller_followup_edit", "redirect", "seller_detail",
                                 "followup_updated")
             /\ UNCHANGED <<session, buyers, sellers, buyer_followups, blog_posts,
                            blobs, clock>>)

seller_followup_delete(seller_id, followup_id) ==
    login_required("seller_followup_delete",
        /\ seller_followups' = RemoveKey(seller_followups, followup_id)
        /\ resp' = Response("seller_followup_delete", "redirect", "seller_detail",
                            "followup_deleted")
        /\ UNCHANGED <<session, buyers, sellers, buyer_followups, blog_posts,
                       blobs, clock>>)

----------------------------------------------------------------------------
(* Blog (src/blog/routes.py); none of its routes is wrapped by             *)
(* login_required                                                          *)

\* s.split(sep) on a one-symbol separator
RECURSIVE Split(_, _)
Split(str, sep) ==
    LET k == FirstIndexOf(str, sep)
    IN IF k = 0 THEN <<str>>
       ELSE <<SubSeq(str, 1, k - 1)>> \o Split(SubSeq(str, k + 1, Len(str)), sep)

\* sep.join(list)
RECURSIVE Join(_, _)
Join(list, sep) ==
    IF list = <<>> THEN <<>>
    ELSE IF Len(list) = 1 THEN list[1]
    ELSE list[1] \o sep \o Join(Tail(list), sep)

Contains(list, x) == \E i \in DOMAIN list : list[i] = x

\* sorted(set)
RECURSIVE SortedStrings(_)
SortedStrings(S) ==
    IF S = {} THEN <<>>
    ELSE LET m == CHOOSE x \in S : \A y \in S : y = x \/ StrLess(x, y)
         IN <<m>> \o SortedStrings(S \ {m})

\* categories as a list: the stored list, else the legacy scalar category
\* (a stored categories value is a list exactly when the field is present)
\* variant: the legacy category is wrapped even when it is blank
NormalizeCategoriesAlways(p) ==
    IF "categories" \in DOMAIN p THEN p
    ELSE ("categories" :> <<Strip(GetOr(p, "category"))>>) @@ p

NormalizeCategories(p) ==
    IF "categories" \in DOMAIN p THEN p
    ELSE LET c == Strip(GetOr(p, "category"))
         IN ("categories" :> (IF c # <<>> THEN <<c>> ELSE <<>>)) @@ p

get_all_categories(coll) ==
    LET catsOf(d) == IF "categories" \in DOMAIN d
                     THEN {Strip(d["categories"][i]) : i \in DOMAIN d["categories"]}
                     ELSE {Strip(GetOr(d, "category"))}
    IN SortedStrings(UNION {catsOf(coll[id]) : id \in DOMAIN coll} \ {<<>>})

BlogMatch(p, q_lower) ==
    \/ IsSubstr(q_lower, Lower(Get(p, "title", <<>>)))
    \/ IsSubstr(q_lower, Lower(Get(p, "content_text", <<>>)))
    \/ IsSubstr(q_lower, Lower(Get(p, "tags", <<>>)))
    \/ IsSubstr(q_lower, Lower(Join(Get(p, "categories", <<>>), <<",", " ">>)))

BlogKeywordFilter(posts, q) ==
    IF q # <<>> THEN FilterSeq(posts, LAMBDA p : BlogMatch(p, Lower(q))) ELSE posts

BlogCategoryFilter(posts, category) ==
    IF category # <<>>
    THEN FilterSeq(posts, LAMBDA p : Contains(Get(p, "categories", <<>>), category))
    ELSE posts

BlogSort(posts, sort_by) ==
    SortByKey(posts, LAMBDA x : Get(x, "created_at", <<>>), sort_by # "created_at_asc")

NoBlogQuery == [q |-> <<>>, category |-> <<>>, status |-> <<>>,
                sort_by |-> "created_at_desc"]

BlogKeywordQueries ==
    { [NoBlogQuery EXCEPT !.q = <<"A">>, !.sort_by = "created_at_asc"],
      [NoBlogQuery EXCEPT !.q = <<",", " ">>, !.sort_by = "name_asc"],
      [NoBlogQuery EXCEPT !.q = <<"C">>] }

BlogQueries ==
    BlogKeywordQueries
    \cup { NoBlogQuery,
           [NoBlogQuery EXCEPT !.category = <<"c">>],
           [NoBlogQuery EXCEPT !.status = <<"draft">>, !.sort_by = "created_at_asc"] }

BlogList(coll, qy) ==
    LET docs == StreamDicts(coll)
        l0 == [i \in DOMAIN docs |-> NormalizeCategories(docs[i])]
        l1 == BlogKeywordFilter(l0, Strip(qy.q))
        l2 == BlogCategoryFilter(l1, Strip(qy.category))
        l3 == EqualityFilter(l2, "status", Strip(qy.status))
    IN BlogSort(l3, qy.sort_by)

blog_index(qy) ==
    /\ resp' = [Response("blog_index", "render", "blog_list.html", "")
                  EXCEPT !.items = BlogList(blog_posts, qy),
                         !.cats = get_all_categories(blog_posts)]
    /\ UNCHANGED <<session, dbvars, blobs, clock>>

BlogForm1 ==
    ("title" :> <<"a">>) @@ ("content" :> <<"b", "<br>", "c">>)
    @@ ("status" :> <<"draft">>) @@ ("tags" :> <<"A">>)
    @@ ("categories" :> << <<"c">>, <<" ", "c">> >>)
    @@ ("new_categories" :> <<"b", ",", " ", "c", ",">>)

BlogForm2 == ("title" :> <<"B", " ">>) @@ ("tags" :> <<"c">>)

BlogFormBlank ==
    ("title" :> <<" ">>) @@ ("content" :> <<"b">>) @@ ("status" :> <<"draft">>)
    @@ ("categories" :> << <<"a">> >>)

BlogForms == {BlogForm1, BlogForm2, BlogFormBlank}

\* variant: blanks are dropped but repeated values are kept
MergeCategoriesRepeating(form) ==
    LET selected == Get(form, "categories", <<>>)
        new_str == FormStrip(form, "new_categories")
        parts == IF new_str # <<>> THEN Split(new_str, ",") ELSE <<>>
        all == selected \o parts
    IN FilterSeq([i \in DOMAIN all |-> Strip(all[i])], LAMBDA c : c # <<>>)

\* the merge of the checkbox list with the comma-separated new_categories
MergeCategories(form) ==
    LET selected == Get(form, "categories", <<>>)
        new_str == FormStrip(form, "new_categories")
        parts == IF new_str # <<>> THEN Split(new_str, ",") ELSE <<>>
        stripped == [i \in DOMAIN parts |-> Strip(parts[i])]
        extra == FilterSeq(stripped, LAMBDA c : c # <<>>)
        all == selected \o extra
        RECURSIVE Dedup(_, _)
        Dedup(rest, acc) ==
            IF rest = <<>> THEN acc
            ELSE LET c == Strip(Head(rest))
                 IN IF c # <<>> /\ ~Contains(acc, c)
                    THEN Dedup(Tail(rest), Append(acc, c))
                    ELSE Dedup(Tail(rest), acc)
    IN Dedup(all, <<>>)

\* content_html with line breaks and <br> replaced by blanks
ContentText(content_html) ==
    [i \in DOMAIN content_html |->
        IF content_html[i] \in {"\r", "\n", "<br>", "<br/>"} THEN " " ELSE content_html[i]]

\* the fields blog_new and blog_edit compute from the form
BlogFields(form, now, sess) ==
    LET content_html == FormStrip(form, "content")
        categories == MergeCategories(form)
    IN [title |-> FormStrip(form, "title"),
        content |-> content_html,
        content_text |-> ContentText(content_html),
        categories |-> categories,
        category |-> IF categories # <<>> THEN categories[1] ELSE <<>>,
        status |-> FormStrip(form, "status"),
        tags |-> FormStrip(form, "tags"),
        project |-> FormStrip(form, "project"),
        updated_at |-> isoformat(now),
        updated_by_id |-> Get(sess, "user_id", None),
        updated_by_name |-> Get(sess, "user_name", <<"system">>)]

\* the document blog_new writes
BlogNewData(form, now, sess) ==
    BlogFields(form, now, sess)
    @@ ("created_at" :> isoformat(now))
    @@ ("created_by_id" :> Get(sess, "user_id", None))
    @@ ("created_by_name" :> Get(sess, "user_name", <<"system">>))

blog_new(method, form, new_id) ==
    IF method = "GET"
    THEN /\ resp' = [Response("blog_new", "render", "blog_form.html", "")
                       EXCEPT !.cats = get_all_categories(blog_posts)]
         /\ UNCHANGED <<session, dbvars, blobs, clock>>
    ELSE IF FormStrip(form, "title") = <<>>
    THEN /\ resp' = [Response("blog_new", "render", "blog_form.html", "title_required")
                       EXCEPT !.form = form, !.cats = get_all_categories(blog_posts)]
         /\ UNCHANGED <<session, dbvars, blobs, clock>>
    ELSE /\ TotalDocs < MaxDocs
         /\ new_id \in FreshIds(blog_posts)
         /\ blog_posts' = (new_id :> BlogNewData(form, clock, session)) @@ blog_posts
         /\ resp' = Response("blog_new", "redirect", "blog_index", "post_added")
         /\ UNCHANGED <<session, buyers, sellers, buyer_followups, seller_followups,
                        blobs, clock>>

blog_detail(post_id) ==
    /\ UNCHANGED <<session, dbvars, blobs, clock>>
    /\ IF post_id \notin DOMAIN blog_posts
       THEN resp' = Response("blog_detail", "redirect", "blog_index", "post_not_found")
       ELSE resp' = [Response("blog_detail", "render", "blog_detail.html", "")
                       EXCEPT !.form = NormalizeCategories(
                                           doc_to_dict(post_id, blog_posts[post_id]))]

\* what blog_edit puts back into the form when the title is blank (untrimmed)
BlogRejectedForm(post, form) ==
    ("title" :> FormStrip(form, "title"))
    @@ ("content" :> Get(form, "content", <<>>))
    @@ ("status" :> Get(form, "status", <<>>))
    @@ ("tags" :> Get(form, "tags", <<>>))
    @@ ("project" :> Get(form, "project", <<>>))
    @@ ("categories" :> Get(form, "categories", <<>>))
    @@ post

blog_edit(post_id, method, form) ==
    IF post_id \notin DOMAIN blog_posts
    THEN /\ resp' = Response("blog_edit", "redirect", "blog_index", "post_not_found")
         /\ UNCHANGED <<session, dbvars, blobs, clock>>
    ELSE LET post == NormalizeCategories(doc_to_dict(post_id, blog_posts[post_id]))
             all_categories == get_all_categories(blog_posts)
         IN IF method = "GET"
            THEN /\ resp' = [Response("blog_edit", "render", "blog_form.html", "")
                               EXCEPT !.form = post, !.cats = all_categories]
                 /\ UNCHANGED <<session, dbvars, blobs, clock>>
            ELSE IF FormStrip(form, "title") = <<>>
            THEN /\ resp' = [Response("blog_edit", "render", "blog_form.html", "title_required")
                               EXCEPT !.form = BlogRejectedForm(post, form),
                                      !.cats = all_categories]
                 /\ UNCHANGED <<session, dbvars, blobs, clock>>
            ELSE /\ blog_posts' = [blog_posts EXCEPT ![post_id] =
                                      DocUpdate(@, BlogFields(form, clock, session))]
                 /\ resp' = Response("blog_edit", "redirect", "blog_detail", "post_updated")
                 /\ UNCHANGED <<session, buyers, sellers, buyer_followups,
                                seller_followups, blobs, clock>>

blog_delete(post_id) ==
    /\ blog_posts' = RemoveKey(blog_posts, post_id)
    /\ resp' = Response("blog_delete", "redirect", "blog_index", "post_deleted")
    /\ UNCHANGED <<session, buyers, sellers, buyer_followups, seller_followups,
                   blobs, clock>>

----------------------------------------------------------------------------
(* CSV export                                                              *)

\* csv.writer with the default dialect: minimal quoting, "\r\n" line ends
CsvSpecial == {",", "\"", "\r", "\n"}

RECURSIVE DoubleQuotes(_)
DoubleQuotes(f) ==
    IF f = <<>> THEN <<>>
    ELSE (IF Head(f) = "\"" THEN <<"\"", "\"">> ELSE <<Head(f)>>) \o DoubleQuotes(Tail(f))

\* variant: fields are written without quoting
CsvFieldUnquoted(v) == IF v = None THEN <<>> ELSE v

CsvField(v) ==
    LET f == IF v = None THEN <<>> ELSE v
    IN IF \E i \in DOMAIN f : f[i] \in CsvSpecial
       THEN <<"\"">> \o DoubleQuotes(f) \o <<"\"">>
       ELSE f

writerow(fields) ==
    Join([i \in DOMAIN fields |-> CsvField(fields[i])], <<",">>) \o <<"\r", "\n">>

BOM == "BOM"

\* the header cells (localized labels in the source), one symbol each
BuyerCsvHeader ==
    <<"id", "h_name", "h_phone", "h_email", "h_line_id", "h_source", "h_level",
      "h_stage", "h_intent_type", "h_budget_min", "h_budget_max", "h_rent_min",
      "h_rent_max", "h_preferred_areas", "h_property_type", "h_room_range",
      "h_car_need", "h_job", "h_family_info", "h_requirement_must",
      "h_requirement_nice", "h_other_background", "h_note", "h_created_at",
      "h_created_by", "h_updated_at", "h_updated_by">>

\* the fields of a data row, in column order
BuyerCsvColumns ==
    <<"id", "name", "phone", "email", "line_id", "source", "level", "stage",
      "intent_type", "budget_min", "budget_max", "rent_min", "rent_max",
      "preferred_areas", "property_type", "room_range", "car_need", "job",
      "family_info", "requirement_must", "requirement_nice", "other_background",
      "note", "created_at", "created_by_name", "updated_at", "updated_by_name">>

SellerCsvHeader ==
    <<"id", "h_name", "h_phone", "h_email", "h_line_id", "h_address",
      "h_property_type", "h_level", "h_stage", "h_reason", "h_expected_price",
      "h_min_price", "h_timeline", "h_occupancy_status", "h_contract_end_date",
      "h_note", "h_created_at", "h_created_by", "h_updated_at", "h_updated_by">>

SellerCsvColumns ==
    <<"id", "name", "phone", "email", "line_id", "address", "property_type",
      "level", "stage", "reason", "expected_price", "min_price", "timeline",
      "occupancy_status", "contract_end_date", "note", "created_at",
      "created_by_name", "updated_at", "updated_by_name">>

RECURSIVE ConcatAll(_)
ConcatAll(ss) == IF ss = <<>> THEN <<>> ELSE Head(ss) \o ConcatAll(Tail(ss))

\* the text of the export: BOM, header row, one writerow per record
CsvExport(coll, header, columns) ==
    LET list == StreamDicts(coll)
        rows == [i \in DOMAIN list |->
                    writerow([j \in DOMAIN columns |-> Get(list[i], columns[j], <<>>)])]
    IN <<BOM>> \o writerow([j \in DOMAIN header |-> <<header[j]>>]) \o ConcatAll(rows)

download_buyers ==
    login_required("download_buyers",
        /\ resp' = [Response("download_buyers", "csv", "buyers.csv", "")
                      EXCEPT !.body = CsvExport(buyers, BuyerCsvHeader, BuyerCsvColumns)]
        /\ UNCHANGED <<session, dbvars, blobs, clock>>)

download_sellers ==
    login_required("download_sellers",
        /\ resp' = [Response("download_sellers", "csv", "sellers.csv", "")
                      EXCEPT !.body = CsvExport(sellers, SellerCsvHeader, SellerCsvColumns)]
        /\ UNCHANGED <<session, dbvars, blobs, clock>>)

----------------------------------------------------------------------------
(* Initial state and next-state relation                                   *)

\* a database that is empty, or that holds records written before the
\* photo_urls / categories / stage fields existed
LegacyBuyer == ("name" :> <<"b">>) @@ ("phone" :> <<"1">>) @@ ("level" :> <<"A">>)
               @@ ("photo_url" :> <<"gs://", DefaultBucket, "/", "buyers", "/", "old.jpg">>)

LegacyPost == ("title" :> <<"A">>) @@ ("content" :> <<"b">>) @@ ("content_text" :> <<"b">>)
              @@ ("category" :> <<" ", "c">>) @@ ("tags" :> <<>>)
              @@ ("status" :> <<"draft">>) @@ ("created_at" :> isoformat(0))

Init ==
    /\ session = EmptyDict
    /\ edits = NoEdits
    /\ clock = 0
    /\ resp = Response("", "", "", "")
    /\ sellers = EmptyDict
    /\ buyer_followups = EmptyDict
    /\ seller_followups = EmptyDict
    /\ \/ /\ buyers = EmptyDict
          /\ blog_posts = EmptyDict
          /\ blobs = {}
       \/ /\ buyers = (1 :> LegacyBuyer)
          /\ blog_posts = EmptyDict
          /\ blobs = {[bucket |-> DefaultBucket, path |-> <<"buyers", "/", "old.jpg">>]}
       \/ /\ buyers = EmptyDict
          /\ blog_posts = (1 :> LegacyPost)
          /\ blobs = {}

Methods == {"GET", "POST"}

Login == \E e \in LoginEmails, pw \in LoginPasswords : login_post(e, pw)

----------------------------------------------------------------------------
(* Spec: every route of the application, each with a small set of inputs   *)
(* and at most MaxDocsAll documents in the database                        *)

MaxDocsAll == 1

CanAdd == TotalDocs < MaxDocsAll

CorePhotoEdits == {NoPhotoEdit, [NoPhotoEdit EXCEPT !.delete_raw = << <<"0">> >>]}

Next ==
    \/ UNCHANGED edits /\ Login
    \/ UNCHANGED edits /\ login_get
    \/ UNCHANGED edits /\ logout
    \/ UNCHANGED edits /\ index
    \/ UNCHANGED edits /\ Tick
    \/ UNCHANGED edits /\ buyers_list(NoQuery)
    \/ UNCHANGED edits /\ \E f \in {BuyerForm1, BuyerFormBlank}, id \in IdSpace :
          CanAdd /\ buyers_new(f, NoFile, id, "u1")
    \/ UNCHANGED edits /\ \E id \in IdSpace : buyer_detail(id)
    \/ UNCHANGED edits /\ \E id \in IdSpace, fid \in IdSpace :
          CanAdd /\ add_buyer_followup(id, FollowupForm1, fid)
    \/ UNCHANGED edits /\ \E id \in IdSpace, m \in Methods, f \in {BuyerForm2, BuyerFormBlank},
          e \in CorePhotoEdits :
          buyer_edit(id, m, f, e.delete_raw, e.files, e.sfx, e.storage_fails)
    \/ UNCHANGED edits /\ \E id \in IdSpace : buyer_delete(id)
    \/ UNCHANGED edits /\ \E id \in IdSpace, fid \in IdSpace, m \in Methods :
          buyer_followup_edit(id, fid, m, FollowupForm2)
    \/ UNCHANGED edits /\ \E id \in IdSpace, fid \in IdSpace : buyer_followup_delete(id, fid)
    \/ UNCHANGED edits /\ sellers_list(NoQuery)
    \/ UNCHANGED edits /\ \E f \in {SellerForm1, SellerFormBlank}, id \in IdSpace :
          CanAdd /\ sellers_new(f, <<>>, <<>>, id)
    \/ UNCHANGED edits /\ \E id \in IdSpace : seller_detail(id)
    \/ UNCHANGED edits /\ \E id \in IdSpace, fid \in IdSpace :
          CanAdd /\ add_seller_followup(id, FollowupForm1, fid)
    \/ UNCHANGED edits /\ \E id \in IdSpace, m \in Methods, f \in {SellerForm2, SellerFormBlank},
          e \in CorePhotoEdits :
          seller_edit(id, m, f, e.delete_raw, e.files, e.sfx, e.storage_fails)
    \/ UNCHANGED edits /\ \E id \in IdSpace : seller_delete(id)
    \/ UNCHANGED edits /\ \E id \in IdSpace, fid \in IdSpace, m \in Methods :
          seller_followup_edit(id, fid, m, FollowupForm2)
    \/ UNCHANGED edits /\ \E id \in IdSpace, fid \in IdSpace : seller_followup_delete(id, fid)
    \/ UNCHANGED edits /\ download_buyers
    \/ UNCHANGED edits /\ download_sellers
    \/ UNCHANGED edits /\ blog_index(NoBlogQuery)
    \/ UNCHANGED edits /\ \E m \in Methods, f \in {BlogForm1, BlogFormBlank}, id \in IdSpace :
          CanAdd /\ blog_new(m, f, id)
    \/ UNCHANGED edits /\ \E id \in IdSpace : blog_detail(id)
    \/ UNCHANGED edits /\ \E id \in IdSpace, m \in Methods, f \in {BlogForm2, BlogFormBlank} :
          blog_edit(id, m, f)
    \/ UNCHANGED edits /\ \E id \in IdSpace : blog_delete(id)

Spec == Init /\ [][Next]_vars

----------------------------------------------------------------------------
(* Claims checked under Spec                                               *)

RecordRoutes ==
    {"buyers", "buyers_new", "buyer_detail", "add_buyer_followup", "buyer_edit",
     "buyer_delete", "buyer_followup_edit", "buyer_followup_delete",
     "sellers", "sellers_new", "seller_detail", "add_seller_followup",
     "seller_edit", "seller_delete", "seller_followup_edit",
     "seller_followup_delete", "download_buyers", "download_sellers",
     "blog_index", "blog_new", "blog_detail", "blog_edit", "blog_delete"}

RedirectedToLogin(r) == r.kind = "redirect" /\ r.to = "login"

\* C1: a request to any record-service route (buyers, sellers, followups,
\* CSV, blog) that arrives without user_id in the session is redirected to
\* the login form and changes no collection.
C1_EveryRecordRouteGuarded ==
    [][(~LoggedIn /\ resp' # resp /\ resp'.route \in RecordRoutes)
          => (RedirectedToLogin(resp') /\ UNCHANGED dbvars)]_vars

StageContactQuery == [NoQuery EXCEPT !.stage = <<"contact">>]

ListsId(list, id) == \E i \in DOMAIN list : list[i]["id"] = IdStr(id)

\* C3: a buyer created by POST /buyers/new with a non-blank name and
\* stage=contact in the form is in the result of GET /buyers?stage=contact.
C3_CreatedBuyerListedByStage ==
    [][\A id \in IdSpace :
          (LoggedIn /\ buyers_new(BuyerForm1, NoFile, id, "u1")
                    /\ id \in DOMAIN buyers' \ DOMAIN buyers)
          => ListsId(BuyersList(buyers', StageContactQuery), id)]_vars

\* the re-rendered form shows every non-blank value the user submitted
ShowsSubmitted(r, form, required) ==
    /\ r.kind = "render"
    /\ \A k \in DOMAIN form \ {required} :
          IF k = "categories"
          THEN form[k] # <<>> => (k \in DOMAIN r.form /\ r.form[k] = form[k])
          ELSE Strip(form[k]) # <<>>
                  => (k \in DOMAIN r.form /\ Strip(r.form[k]) = Strip(form[k]))

\* C5: when a create or edit request is rejected for a blank required field,
\* the response is the re-rendered form carrying the other non-blank values
\* the user submitted, for buyers, sellers and blog posts alike.
C5_RejectionReRendersForm ==
    [][/\ \A id \in IdSpace :
             (LoggedIn /\ buyers_new(BuyerFormBlank, NoFile, id, "u1"))
             => ShowsSubmitted(resp', BuyerFormBlank, "name")
       /\ \A id \in IdSpace :
             (LoggedIn /\ sellers_new(SellerFormBlank, <<>>, <<>>, id))
             => ShowsSubmitted(resp', SellerFormBlank, "name")
       /\ \A id \in IdSpace :
             blog_new("POST", BlogFormBlank, id)
             => ShowsSubmitted(resp', BlogFormBlank, "title")
       /\ \A id \in DOMAIN buyers :
             (LoggedIn /\ buyer_edit(id, "POST", BuyerFormBlank, <<>>, <<>>, <<>>, FALSE))
             => ShowsSubmitted(resp', BuyerFormBlank, "name")
       /\ \A id \in DOMAIN blog_posts :
             blog_edit(id, "POST", BlogFormBlank)
             => ShowsSubmitted(resp', BlogFormBlank, "title")]_vars

NonBlankField(coll, field) ==
    \A id \in DOMAIN coll : Strip(GetOr(coll[id], field)) # <<>>

\* C6: a blank name/title is rejected by every edit, so no stored buyer,
\* seller or blog post ever has a blank name/title.
C6_NoBlankRequiredField ==
    /\ NonBlankField(buyers, "name")
    /\ NonBlankField(sellers, "name")
    /\ NonBlankField(blog_posts, "title")

----------------------------------------------------------------------------
(* SpecCascade: parents, followups and the cascading deletes, with up to   *)
(* MaxDocs documents                                                       *)

NextCascade ==
    \/ UNCHANGED edits /\ Login
    \/ UNCHANGED edits /\ \E id \in IdSpace : buyers_new(BuyerForm1, NoFile, id, "u1")
    \/ UNCHANGED edits /\ \E id \in IdSpace : sellers_new(SellerForm1, <<>>, <<>>, id)
    \/ UNCHANGED edits /\ \E id \in IdSpace, fid \in IdSpace : add_buyer_followup(id, FollowupForm1, fid)
    \/ UNCHANGED edits /\ \E id \in IdSpace, fid \in IdSpace : add_seller_followup(id, FollowupForm1, fid)
    \/ UNCHANGED edits /\ \E id \in IdSpace : buyer_delete(id)
    \/ UNCHANGED edits /\ \E id \in IdSpace : seller_delete(id)
    \/ UNCHANGED edits /\ \E id \in IdSpace, fid \in IdSpace : buyer_followup_delete(id, fid)
    \/ UNCHANGED edits /\ \E id \in IdSpace, fid \in IdSpace : seller_followup_delete(id, fid)

SpecCascade == Init /\ [][NextCascade]_vars

References(coll, field, id) ==
    {f \in DOMAIN coll : Get(coll[f], field, None) = IdStr(id)}

\* the deleted parent and its followups are gone, every other followup stays
CascadeDone(parents, parents1, fups, fups1, field, id) ==
    /\ id \notin DOMAIN parents1
    /\ References(fups1, field, id) = {}
    /\ \A f \in DOMAIN fups \ References(fups, field, id) :
          f \in DOMAIN fups1 /\ fups1[f] = fups[f]
    /\ \A p \in DOMAIN parents \ {id} : p \in DOMAIN parents1 /\ parents1[p] = parents[p]

\* C2: after buyer_delete(id) (resp. seller_delete(id)) the parent document
\* is gone, no followup references id, and the followups of other parents
\* (and of the other kind) are untouched.
C2_DeleteCascades ==
    [][\A id \in IdSpace :
          /\ (LoggedIn /\ buyer_delete(id))
                => /\ CascadeDone(buyers, buyers', buyer_followups, buyer_followups',
                                  "buyer_id", id)
                   /\ UNCHANGED <<sellers, seller_followups>>
          /\ (LoggedIn /\ seller_delete(id))
                => /\ CascadeDone(sellers, sellers', seller_followups, seller_followups',
                                  "seller_id", id)
                   /\ UNCHANGED <<buyers, buyer_followups>>]_vars

\* a delete has been answered and a followup of another parent is still stored
C2_Witness ==
    /\ resp.route = "buyer_delete"
    /\ resp.flash = "buyer_deleted"
    /\ DOMAIN buyers # {}
    /\ \E f \in DOMAIN buyer_followups :
          \E b \in DOMAIN buyers : buyer_followups[f]["buyer_id"] = IdStr(b)

----------------------------------------------------------------------------
(* SpecCreate: the three create requests, with uploads                     *)

MaxDocsCreate == 2

CanCreate == TotalDocs < MaxDocsCreate

NextCreate ==
    \/ UNCHANGED edits /\ Login
    \/ UNCHANGED edits /\ logout
    \/ UNCHANGED edits /\ Tick
    \/ UNCHANGED edits /\ \E f \in BuyerForms, file \in BuyersNewFiles, id \in IdSpace, sfx \in Suffixes :
          CanCreate /\ buyers_new(f, file, id, sfx)
    \/ UNCHANGED edits /\ \E f \in SellerForms, u \in NewUploads, id \in IdSpace :
          CanCreate /\ sellers_new(f, u.files, u.sfx, id)
    \/ UNCHANGED edits /\ \E m \in Methods, f \in BlogForms, id \in IdSpace :
          CanCreate /\ blog_new(m, f, id)

SpecCreate == Init /\ [][NextCreate]_vars

\* the required field of the submitted form is blank after trimming
BlankInput(form, field) == Strip(Get(form, field, <<>>)) = <<>>

\* C4: a create request whose required field (name / title) is blank after
\* trimming writes nothing: collections and blob storage are unchanged.
C4_BlankCreateWritesNothing ==
    [][/\ resp'.route = "buyers_new"
          => \A f \in BuyerForms, file \in BuyersNewFiles, id \in IdSpace, sfx \in Suffixes :
                (BlankInput(f, "name") /\ buyers_new(f, file, id, sfx))
                => UNCHANGED <<dbvars, blobs>>
       /\ resp'.route = "sellers_new"
          => \A f \in SellerForms, u \in NewUploads, id \in IdSpace :
                (BlankInput(f, "name") /\ sellers_new(f, u.files, u.sfx, id))
                => UNCHANGED <<dbvars, blobs>>
       /\ resp'.route = "blog_new"
          => \A f \in BlogForms, id \in IdSpace :
                (BlankInput(f, "title") /\ blog_new("POST", f, id))
                => UNCHANGED <<dbvars, blobs>>]_vars

\* a blank create has been rejected while the collection held a record
C4_Witness ==
    /\ resp.route = "sellers_new"
    /\ resp.flash = "name_required"
    /\ DOMAIN sellers # {}
    /\ blobs # {}

----------------------------------------------------------------------------
(* SpecRead: the list routes and the CSV exports over stored collections   *)
(* of up to MaxDocs documents written by the create and edit handlers (or  *)
(* predating them)                                                         *)

Staff == LoginSession(1)

EditedBuyer(doc, form, now) ==
    DocUpdate(doc, PhotoEdit(doc, <<>>, <<>>, <<>>, "buyers", <<>>).fields
                   @@ BuyerUpdated(form, now, Staff))

LegacySeller == ("name" :> <<"c">>) @@ ("note" :> <<"a", "\n", "\"", "b">>)

SampleBuyers ==
    {BuyerNewData(f, t, Staff) : f \in {BuyerForm1, BuyerForm2}, t \in 0..MaxClock}
    \cup {EditedBuyer(BuyerNewData(BuyerForm2, 0, Staff), BuyerForm1, MaxClock),
          LegacyBuyer}

SampleSellers ==
    {SellerNewData(f, <<>>, t, Staff) : f \in {SellerForm1, SellerForm2}, t \in 0..MaxClock}
    \cup {DocUpdate(SellerNewData(SellerForm2, <<>>, 0, Staff),
                    SellerUpdated(SellerFormBlank, MaxClock, Staff)),
          LegacySeller}

SamplePosts ==
    {BlogNewData(f, t, Staff) : f \in {BlogForm1, BlogForm2}, t \in 0..MaxClock}
    \cup {LegacyPost, RemoveKey(LegacyPost, "created_at")}

InitRead ==
    /\ session = Staff
    /\ edits = NoEdits
    /\ clock = MaxClock
    /\ resp = Response("", "", "", "")
    /\ buyer_followups = EmptyDict
    /\ seller_followups = EmptyDict
    /\ blobs = {}
    /\ \E ids \in SUBSET IdSpace :
          \/ /\ buyers \in [ids -> SampleBuyers]
             /\ sellers = EmptyDict
             /\ blog_posts = EmptyDict
          \/ /\ buyers = EmptyDict
             /\ sellers \in [ids -> SampleSellers]
             /\ blog_posts = EmptyDict
          \/ /\ buyers = EmptyDict
             /\ sellers = EmptyDict
             /\ blog_posts \in [ids -> SamplePosts]

NextRead ==
    \/ UNCHANGED edits /\ \E qy \in ListQueries : buyers_list(qy)
    \/ UNCHANGED edits /\ \E qy \in ListQueries : sellers_list(qy)
    \/ UNCHANGED edits /\ \E qy \in BlogQueries : blog_index(qy)
    \/ UNCHANGED edits /\ download_buyers
    \/ UNCHANGED edits /\ download_sellers

SpecRead == InitRead /\ [][NextRead]_vars

\* the documents of coll whose stored field equals value
Matching(coll, field, value) ==
    {id \in DOMAIN coll : field \in DOMAIN coll[id] /\ coll[id][field] = value}

\* items holds each document of ids once and nothing else
ExactlyDocs(items, coll, ids) ==
    /\ Len(items) = Cardinality(ids)
    /\ \A id \in ids : Contains(items, doc_to_dict(id, coll[id]))

\* C7: on the buyer and seller lists a non-empty level, stage or
\* intent_type filter answers exactly the stored records whose field equals
\* the filter value, each once; with every filter empty the list holds the
\* whole collection.
C7_EnumFilterExact ==
    [][/\ \A f \in EnumFilters :
             /\ buyers_list(EnumQuery(f))
                   => ExactlyDocs(resp'.items, buyers, Matching(buyers, f[1], f[2]))
             /\ (f[1] # "intent_type" /\ sellers_list(EnumQuery(f)))
                   => ExactlyDocs(resp'.items, sellers, Matching(sellers, f[1], f[2]))
       /\ buyers_list(NoQuery) => ExactlyDocs(resp'.items, buyers, DOMAIN buyers)
       /\ sellers_list(NoQuery) => ExactlyDocs(resp'.items, sellers, DOMAIN sellers)]_vars

\* the stage filter kept some buyers and removed others, one of them a
\* buyer that stores no stage
C7_Witness ==
    /\ resp.route = "buyers"
    /\ resp.items = BuyersList(buyers, EnumQuery(<<"stage", <<"contact">>>>))
    /\ resp.items # <<>>
    /\ \E id \in DOMAIN buyers : "stage" \notin DOMAIN buyers[id]

Keywords == {Strip(qy.q) : qy \in KeywordQueries}

BlogKeywords == {Strip(qy.q) : qy \in BlogKeywordQueries}

IsSublist(out, in) ==
    /\ Len(out) <= Len(in)
    /\ \A i \in DOMAIN out : Contains(in, out[i])

NormalizedPosts(coll) ==
    LET docs == StreamDicts(coll) IN [i \in DOMAIN docs |-> NormalizeCategories(docs[i])]

\* C8: the keyword filter of the buyer, seller and blog lists returns only
\* records of its input, and filtering its output again with the same term
\* returns that output unchanged.
C8_KeywordFilterIdempotent ==
    /\ \A q \in Keywords : \A coll \in {buyers, sellers} :
          LET out == KeywordFilter(StreamDicts(coll), q)
          IN IsSublist(out, StreamDicts(coll)) /\ KeywordFilter(out, q) = out
    /\ \A q \in BlogKeywords :
          LET out == BlogKeywordFilter(NormalizedPosts(blog_posts), q)
          IN /\ IsSublist(out, NormalizedPosts(blog_posts))
             /\ BlogKeywordFilter(out, q) = out

\* a keyword search was answered that kept some buyers and dropped two others
C8_Witness ==
    /\ resp.route = "buyers"
    /\ resp.items = BuyersList(buyers, [NoQuery EXCEPT !.q = <<"b", "a">>])
    /\ Len(resp.items) = 1
    /\ Cardinality(DOMAIN buyers) = 3

DistinctKeys(list) ==
    \A i, j \in DOMAIN list :
        i # j => Get(list[i], "created_at", <<>>) # Get(list[j], "created_at", <<>>)

OldestFirst == [NoQuery EXCEPT !.sort_by = "created_at_asc"]

\* C9: when the created_at values of a collection are pairwise distinct (a
\* missing one counting as the empty string), the list sorted with
\* created_at_desc, reversed, is the list sorted with created_at_asc.
C9_DescReversedIsAsc ==
    /\ DistinctKeys(StreamDicts(buyers))
          => Reverse(BuyersList(buyers, NoQuery)) = BuyersList(buyers, OldestFirst)
    /\ DistinctKeys(StreamDicts(sellers))
          => Reverse(SellersList(sellers, NoQuery)) = SellersList(sellers, OldestFirst)
    /\ DistinctKeys(StreamDicts(blog_posts))
          => Reverse(BlogList(blog_posts, NoBlogQuery))
                = BlogList(blog_posts, [NoBlogQuery EXCEPT !.sort_by = "created_at_asc"])

\* three buyers with distinct created_at, one without the field, were listed
\* oldest first in an order that differs from the stored one
C9_Witness ==
    /\ resp.route = "buyers"
    /\ Len(resp.items) = 3
    /\ DistinctKeys(resp.items)
    /\ resp.items = BuyersList(buyers, OldestFirst)
    /\ resp.items # StreamDicts(buyers)
    /\ \E id \in DOMAIN buyers : "created_at" \notin DOMAIN buyers[id]

\* Reading CSV text back: a position is outside quotes when an even number
\* of quote characters precedes it; rows end at CR LF outside quotes and
\* fields at commas outside quotes; a quoted field loses its outer quotes
\* and has its doubled quotes halved.
OutsideQuotes(text, i) ==
    Cardinality({k \in 1..(i - 1) : text[k] = "\""}) % 2 = 0

\* the pieces of text between the cut positions, each cut being width long
Pieces(text, cuts, width) ==
    LET at == SeqOfIds(cuts)
        from(n) == IF n = 1 THEN 1 ELSE at[n - 1] + width
        to(n) == IF n > Len(at) THEN Len(text) ELSE at[n] - 1
    IN [n \in 1..(Len(at) + 1) |-> SubSeq(text, from(n), to(n))]

RECURSIVE HalveQuotes(_)
HalveQuotes(f) ==
    IF f = <<>> THEN <<>>
    ELSE IF Head(f) = "\"" /\ Tail(f) # <<>> /\ Head(Tail(f)) = "\""
         THEN <<"\"">> \o HalveQuotes(Tail(Tail(f)))
    ELSE <<Head(f)>> \o HalveQuotes(Tail(f))

CsvUnquote(f) ==
    IF Len(f) >= 2 /\ f[1] = "\"" /\ f[Len(f)] = "\""
    THEN HalveQuotes(SubSeq(f, 2, Len(f) - 1)) ELSE f

CsvFields(line) ==
    LET parts == Pieces(line, {i \in DOMAIN line : line[i] = "," /\ OutsideQuotes(line, i)}, 1)
    IN [n \in DOMAIN parts |-> CsvUnquote(parts[n])]

\* the text ends with a row terminator; what follows the last one is dropped
CsvRows(text) ==
    LET ends == {i \in 1..(Len(text) - 1) :
                    text[i] = "\r" /\ text[i + 1] = "\n" /\ OutsideQuotes(text, i)}
        lines == Pieces(text, ends, 2)
    IN [n \in 1..Cardinality(ends) |-> CsvFields(lines[n])]

EndsWithNewline(text) ==
    Len(text) >= 2 /\ SubSeq(text, Len(text) - 1, Len(text)) = <<"\r", "\n">>

HeaderLine(header) ==
    Join([j \in DOMAIN header |-> <<header[j]>>], <<",">>) \o <<"\r", "\n">>

CsvWellFormed(body, coll, header, columns) ==
    LET list == StreamDicts(coll)
        rows == CsvRows(Tail(body))
    IN /\ Head(body) = BOM
       /\ EndsWithNewline(body)
       /\ SubSeq(body, 2, 1 + Len(HeaderLine(header))) = HeaderLine(header)
       /\ Len(rows) = 1 + Cardinality(DOMAIN coll)
       /\ \A i \in DOMAIN list :
             /\ Len(rows[i + 1]) = Len(header)
             /\ \A j \in DOMAIN columns :
                   rows[i + 1][j] = IF columns[j] \in DOMAIN list[i]
                                    THEN list[i][columns[j]] ELSE <<>>
       /\ coll = EmptyDict => body = <<BOM>> \o HeaderLine(header)

\* C10: the CSV answered by download_buyers (resp. download_sellers) is the
\* BOM, the fixed header line, then one row per stored record in stream
\* order, each with as many columns as the header, holding the record's
\* field or the empty string where the record lacks it; for an empty
\* collection it is the BOM and the header line only.
C10_CsvExportShape ==
    [][/\ download_buyers
            => CsvWellFormed(resp'.body, buyers, BuyerCsvHeader, BuyerCsvColumns)
       /\ download_sellers
            => CsvWellFormed(resp'.body, sellers, SellerCsvHeader, SellerCsvColumns)]_vars

\* buyers were exported, one with a comma in a field and one lacking a column
C10_Witness ==
    /\ resp.route = "download_buyers"
    /\ resp.kind = "csv"
    /\ Cardinality(DOMAIN buyers) >= 2
    /\ \E id \in DOMAIN buyers : Contains(GetOr(buyers[id], "note"), ",")
    /\ \E id \in DOMAIN buyers : "updated_at" \notin DOMAIN buyers[id]

----------------------------------------------------------------------------
(* SpecView: the detail and edit pages and the blog list over stored       *)
(* documents of both shapes: with the list field (categories, photo_urls)  *)
(* and with the legacy scalar only (category, photo_url)                   *)

\* buyers as buyers_new stores them (with and without a photo), as an edit
\* that uploaded two photos leaves them, and a record predating photo_urls
ViewBuyers ==
    LET url(suffix) == upload_image_to_storage(GoodFile, "buyers", IdStr(1), suffix).url
        plain == BuyerNewData(BuyerForm1, 0, Staff)
        with_photo == ("photo_url" :> url("u1")) @@ BuyerNewData(BuyerForm2, 0, Staff)
        with_photos ==
            DocUpdate(plain, PhotoEdit(plain, <<>>, <<GoodFile, GoodFile>>, <<"u1", "u2">>,
                                       "buyers", IdStr(1)).fields
                             @@ BuyerUpdated(BuyerForm1, MaxClock, Staff))
    IN {LegacyBuyer, plain, with_photo, with_photos,
        EditedBuyer(with_photo, BuyerForm2, MaxClock)}

ViewSellers ==
    LET url(suffix) == upload_image_to_storage(GoodFile, "sellers", IdStr(1), suffix).url
    IN {LegacySeller,
        ("photo_url" :> url("u2")) @@ LegacySeller,
        SellerNewData(SellerForm1, <<>>, 0, Staff),
        SellerNewData(SellerForm2, <<url("u1"), url("u2")>>, MaxClock, Staff)}

\* the posts of SamplePosts and one whose legacy category is blank
ViewPosts == SamplePosts \cup {("title" :> <<"b">>) @@ ("category" :> <<" ">>)}

\* the objects the photo URLs of a collection point to
StoredBlobs(coll) ==
    LET urls == UNION {{CurrentPhotos(coll[id])[i] : i \in DOMAIN CurrentPhotos(coll[id])}
                          : id \in DOMAIN coll}
    IN {[bucket |-> ParseStorageUrl(u).bucket, path |-> ParseStorageUrl(u).path] : u \in urls}

InitView ==
    /\ session = Staff
    /\ edits = NoEdits
    /\ clock = MaxClock
    /\ resp = Response("", "", "", "")
    /\ buyer_followups = EmptyDict
    /\ seller_followups = EmptyDict
    /\ \E ids \in SUBSET IdSpace :
          \/ /\ buyers \in [ids -> ViewBuyers]
             /\ sellers = EmptyDict
             /\ blog_posts = EmptyDict
          \/ /\ buyers = EmptyDict
             /\ sellers \in [ids -> ViewSellers]
             /\ blog_posts = EmptyDict
          \/ /\ buyers = EmptyDict
             /\ sellers = EmptyDict
             /\ blog_posts \in [ids -> ViewPosts]
    /\ blobs = StoredBlobs(buyers) \cup StoredBlobs(sellers)

NextView ==
    \/ UNCHANGED edits /\ \E qy \in BlogQueries : blog_index(qy)
    \/ UNCHANGED edits /\ \E id \in IdSpace : blog_detail(id)
    \/ UNCHANGED edits /\ \E id \in IdSpace : blog_edit(id, "GET", EmptyDict)
    \/ UNCHANGED edits /\ blog_new("GET", EmptyDict, 1)
    \/ UNCHANGED edits /\ \E id \in IdSpace : buyer_detail(id)
    \/ UNCHANGED edits /\ \E id \in IdSpace : seller_detail(id)
    \/ UNCHANGED edits /\ \E id \in IdSpace : buyer_edit(id, "GET", EmptyDict, <<>>, <<>>, <<>>, FALSE)
    \/ UNCHANGED edits /\ \E id \in IdSpace : seller_edit(id, "GET", EmptyDict, <<>>, <<>>, <<>>, FALSE)

SpecView == InitView /\ [][NextView]_vars

\* the stored list when the document has one, else the legacy scalar wrapped
\* when it is not blank
AsList(doc, list_field, scalar) ==
    IF list_field \in DOMAIN doc THEN doc[list_field]
    ELSE IF Strip(scalar) # <<>> THEN <<scalar>> ELSE <<>>

PresentedCategories(post) == AsList(post, "categories", Strip(GetOr(post, "category")))

PresentedPhotos(doc) == AsList(doc, "photo_urls", GetOr(doc, "photo_url"))

StoredPost(item) == CHOOSE id \in DOMAIN blog_posts : IdStr(id) = item["id"]

----------------------------------------------------------------------------
(* Login                                                                   *)

\* the session holds the id, name and email of user u
StoresUser(sess, u) ==
    /\ {"user_id", "user_name", "user_email"} \subseteq DOMAIN sess
    /\ sess["user_id"] = IdStr(u)
    /\ sess["user_name"] = users[u].name
    /\ sess["user_email"] = users[u].email

Verifies(u, password) == users[u].password_hash = generate_password_hash(password)

\* C12 as stated: POST /login stores the user in the session if and only
\* if a users record has exactly the submitted email and the submitted
\* password verifies against its hash; otherwise the session is unchanged.
C12_LoginIffExactEmail ==
    [][\A e \in LoginEmails, pw \in LoginPasswords :
          (resp'.route = "login" /\ login_post(e, pw))
          => IF \E u \in DOMAIN users : users[u].email = e /\ Verifies(u, pw)
             THEN \E u \in DOMAIN users : users[u].email = e /\ StoresUser(session', u)
             ELSE session' = session]_vars

\* C12 amended: POST /login stores the user in the session if and only if
\* a users record has the submitted email, trimmed and lower-cased, and the
\* submitted password verifies against its hash; otherwise the session is
\* unchanged.
C12_LoginIffNormalizedEmail ==
    [][\A e \in LoginEmails, pw \in LoginPasswords :
          (resp'.route = "login" /\ login_post(e, pw))
          => IF \E u \in DOMAIN users : users[u].email = Lower(Strip(e)) /\ Verifies(u, pw)
             THEN \E u \in DOMAIN users :
                     users[u].email = Lower(Strip(e)) /\ StoresUser(session', u)
             ELSE session' = session]_vars

\* a login was accepted and the session holds the user
C12_Witness ==
    /\ resp.route = "login"
    /\ resp.flash = "welcome"
    /\ StoresUser(session, 1)

----------------------------------------------------------------------------
(* SpecEdit: buyer_edit and seller_edit on stored records with photos, up  *)
(* to MaxDocsEdit records                                                  *)

MaxDocsEdit == 1

\* the records of SpecView and records whose photo URLs have none of the
\* three storage shapes
InitEdit ==
    LET EditBuyers ==
            ViewBuyers
            \cup {("photo_urls" :> << <<"http://", "example.com", "/", "x.jpg">>,
                                      <<"gs://", "bucket">> >>) @@ LegacyBuyer}
        EditSellers ==
            ViewSellers
            \cup {("photo_urls" :> << <<"x.jpg">>,
                                      <<"https://", "storage.googleapis.com", "/", "b">> >>)
                  @@ LegacySeller}
    IN /\ session = Staff
       /\ edits = NoEdits
       /\ clock = MaxClock
       /\ resp = Response("", "", "", "")
       /\ buyer_followups = EmptyDict
       /\ seller_followups = EmptyDict
       /\ blog_posts = EmptyDict
       /\ \E ids \in SUBSET IdSpace :
             /\ Cardinality(ids) <= MaxDocsEdit
             /\ \/ buyers \in [ids -> EditBuyers] /\ sellers = EmptyDict
                \/ buyers = EmptyDict /\ sellers \in [ids -> EditSellers]
       \* an object may have been removed from the bucket by hand
       /\ blobs \in {StoredBlobs(buyers) \cup StoredBlobs(sellers), {}}

NextEdit ==
    \/ UNCHANGED edits /\ \E id \in IdSpace : buyer_edit(id, "GET", EmptyDict, <<>>, <<>>, <<>>, FALSE)
    \/ UNCHANGED edits /\ \E id \in IdSpace : seller_edit(id, "GET", EmptyDict, <<>>, <<>>, <<>>, FALSE)
    \/ UNCHANGED edits /\ \E id \in IdSpace, f \in BuyerForms, pe \in PhotoEdits :
          buyer_edit(id, "POST", f, pe.delete_raw, pe.files, pe.sfx, pe.storage_fails)
    \/ UNCHANGED edits /\ \E id \in IdSpace, f \in SellerForms, pe \in PhotoEdits :
          seller_edit(id, "POST", f, pe.delete_raw, pe.files, pe.sfx, pe.storage_fails)

SpecEdit == InitEdit /\ [][NextEdit]_vars

\* URLs handed to storage deletion: those stored in the records, and the
\* empty, null and odd ones
DeletableUrls ==
    {<<>>, None, <<"gs://">>, <<"gs://", "/", "x">>, <<"x.jpg">>,
     <<"https://", "firebasestorage.googleapis.com", "/v0/b/", "b", "/o/">>,
     <<"https://", "firebasestorage.googleapis.com", "/v0/b/", "b", "/o/", "buyers", "/", "gone.jpg">>,
     <<"gs://", DefaultBucket, "/", "buyers", "/", "gone.jpg">>}
    \cup UNION {{CurrentPhotos(buyers[id])[i] : i \in DOMAIN CurrentPhotos(buyers[id])}
                   : id \in DOMAIN buyers}
    \cup UNION {{CurrentPhotos(sellers[id])[i] : i \in DOMAIN CurrentPhotos(sellers[id])}
                   : id \in DOMAIN sellers}

PointsToStored(url) ==
    /\ ParseStorageUrl(url).ok
    /\ [bucket |-> ParseStorageUrl(url).bucket, path |-> ParseStorageUrl(url).path] \in blobs

\* C13: delete_storage_file_by_url returns normally for every URL and every
\* storage failure; it removes nothing unless the URL resolves to a stored
\* object and storage works, and then removes only that object; so an edit
\* that has written its record answers with the redirect to the detail
\* page whatever happens to the deletions.
C13_StorageDeletionNeverRaises ==
    [][/\ \A url \in DeletableUrls, fails \in BOOLEAN :
             LET r == delete_storage_file_by_url(blobs, url, fails)
             IN /\ ~r.raised
                /\ (fails \/ ~PointsToStored(url)) => r.store = blobs
                /\ r.store \subseteq blobs
                /\ Cardinality(blobs \ r.store) <= 1
       /\ (resp'.route \in {"buyer_edit", "seller_edit"}
              /\ <<buyers', sellers'>> # <<buyers, sellers>>)
          => /\ resp'.kind = "redirect"
             /\ resp'.to \in {"buyer_detail", "seller_detail"}]_vars

\* an edit was saved although storage failed on the photo it removed: the
\* object is still in the bucket and no stored record refers to it
C13_Witness ==
    /\ resp.route = "buyer_edit"
    /\ resp.flash = "buyer_updated"
    /\ blobs \ StoredBlobs(buyers) # {}

----------------------------------------------------------------------------
(* Upload failures                                                         *)

\* the file is one upload_image_to_storage cannot store
FailingFile(file) ==
    \/ file \in {BadExtFile, NoExtFile}
    \/ file.filename # <<>> /\ file.outcome # "ok"

\* C14: when the photo sent with a create request cannot be uploaded
\* (extension not allowed, image not decodable, storage error) the request
\* still succeeds and the record is saved with its text fields and
\* without that photo.
C14_UploadFailureStillSaves ==
    [][/\ resp'.route = "buyers_new"
          => \A f \in BuyerForms, file \in BuyersNewFiles, id \in IdSpace, sfx \in Suffixes :
                (LoggedIn /\ ~BlankInput(f, "name") /\ FailingFile(file)
                   /\ buyers_new(f, file, id, sfx))
                => /\ resp'.kind = "redirect"
                   /\ id \in DOMAIN buyers'
                   /\ buyers'[id]["name"] = Strip(f["name"])
                   /\ "photo_url" \notin DOMAIN buyers'[id]
       /\ resp'.route = "sellers_new"
          => \A f \in SellerForms, u \in NewUploads, id \in IdSpace :
                (LoggedIn /\ ~BlankInput(f, "name")
                   /\ (\E i \in DOMAIN u.files : FailingFile(u.files[i]))
                   /\ sellers_new(f, u.files, u.sfx, id))
                => /\ resp'.kind = "redirect"
                   /\ id \in DOMAIN sellers'
                   /\ sellers'[id]["name"] = Strip(f["name"])]_vars

----------------------------------------------------------------------------
(* Photo list written by an edit                                           *)

\* the elements of list at the positions in keep, in their order
AtPositions(list, keep) ==
    [k \in 1..Cardinality(keep) |->
        list[CHOOSE i \in keep : Cardinality({j \in keep : j < i}) = k - 1]]

\* the stored list, or the legacy photo_url as a one-element list
StoredPhotos(doc) ==
    IF "photo_urls" \in DOMAIN doc /\ doc["photo_urls"] # <<>> THEN doc["photo_urls"]
    ELSE IF "photo_url" \in DOMAIN doc /\ doc["photo_url"] \notin {<<>>, None}
         THEN <<doc["photo_url"]>>
    ELSE <<>>

\* the positions of list (from one) whose zero-based index was submitted
Submitted(list, delete_raw) ==
    {i \in DOMAIN list : \E k \in DOMAIN delete_raw : delete_raw[k] = IdStr(i - 1)}

\* the URLs of the files that were stored, in upload order
UploadedUrls(files, sfx, folder, id) ==
    LET url(i) == upload_image_to_storage(files[i], folder, IdStr(id), sfx[i]).url
    IN AtPositions([i \in DOMAIN files |-> url(i)], {i \in DOMAIN files : url(i) # None})

StorageObjects(urls) ==
    {[bucket |-> ParseStorageUrl(urls[i]).bucket, path |-> ParseStorageUrl(urls[i]).path]
        : i \in {j \in DOMAIN urls : ParseStorageUrl(urls[j]).ok}}

\* what an edit of doc that wrote after must have done with the photos
PhotosEdited(doc, after, pe, folder, id) ==
    LET cur == StoredPhotos(doc)
        gone == Submitted(cur, pe.delete_raw)
        uploaded == UploadedUrls(pe.files, pe.sfx, folder, id)
        expected == AtPositions(cur, DOMAIN cur \ gone) \o uploaded
    IN /\ after["photo_urls"] = expected
       /\ after["photo_url"] = (IF expected = <<>> THEN <<>> ELSE expected[1])
       /\ ~pe.storage_fails
          => blobs' = (blobs \cup StorageObjects(uploaded))
                         \ StorageObjects(AtPositions(cur, gone))
       /\ pe.storage_fails => blobs' = blobs \cup StorageObjects(uploaded)

\* C15: an edit of a buyer or seller that writes the record stores as
\* photo_urls the current photo list (the stored list, or the legacy
\* photo_url alone when the list is empty or absent) without the entries
\* at the submitted delete indexes, in order, followed by the URLs of the
\* stored new files in upload order, and photo_url as its first element;
\* indexes that are not integers, are negative or are out of range remove
\* nothing; the removed URLs, and only they, are deleted from storage.
C15_EditedPhotoList ==
    [][/\ (resp'.route = "buyer_edit" /\ buyers' # buyers)
          => \A id \in DOMAIN buyers, f \in BuyerForms, pe \in PhotoEdits :
                buyer_edit(id, "POST", f, pe.delete_raw, pe.files, pe.sfx, pe.storage_fails)
                => PhotosEdited(buyers[id], buyers'[id], pe, "buyers", id)
       /\ (resp'.route = "seller_edit" /\ sellers' # sellers)
          => \A id \in DOMAIN sellers, f \in SellerForms, pe \in PhotoEdits :
                seller_edit(id, "POST", f, pe.delete_raw, pe.files, pe.sfx, pe.storage_fails)
                => PhotosEdited(sellers[id], sellers'[id], pe, "sellers", id)]_vars

\* an edit kept the first stored photo and appended an uploaded one
C15_Witness ==
    /\ resp.route = "seller_edit"
    /\ resp.flash = "seller_updated"
    /\ \E id \in DOMAIN sellers :
          LET p == sellers[id]["photo_urls"]
          IN /\ Len(p) = 2
             /\ p[2] = public_url(DefaultBucket,
                                  <<"sellers", "/">> \o IdStr(id) \o <<"_", "u1", ".", "jpg">>)

----------------------------------------------------------------------------
(* Requests for an id that is not stored                                   *)

NotFoundNotices == {"buyer_not_found", "seller_not_found", "post_not_found",
                    "followup_not_found"}

\* the answer to a request for a missing record, which writes nothing
AnsweredNotFound(parent) ==
    /\ resp'.kind = "redirect"
    /\ resp'.to = parent
    /\ resp'.flash \in NotFoundNotices
    /\ UNCHANGED <<dbvars, blobs>>

\* C16: a detail, edit, followup-edit or delete request for an id that is
\* not in its collection is answered by a redirect to the parent page with
\* a not-found notice and writes nothing; an edit POST for it creates no
\* document.
C16_UnknownIdNotFound ==
    [][LoggedIn =>
       /\ \A id \in IdSpace \ DOMAIN buyers :
             /\ buyer_detail(id) => AnsweredNotFound("buyers")
             /\ buyer_delete(id) => AnsweredNotFound("buyers")
             /\ \A m \in Methods, f \in {BuyerForm2, BuyerFormBlank}, e \in CorePhotoEdits :
                   buyer_edit(id, m, f, e.delete_raw, e.files, e.sfx, e.storage_fails)
                   => AnsweredNotFound("buyers") /\ id \notin DOMAIN buyers'
       /\ \A id \in IdSpace \ DOMAIN sellers :
             /\ seller_detail(id) => AnsweredNotFound("sellers")
             /\ seller_delete(id) => AnsweredNotFound("sellers")
             /\ \A m \in Methods, f \in {SellerForm2, SellerFormBlank}, e \in CorePhotoEdits :
                   seller_edit(id, m, f, e.delete_raw, e.files, e.sfx, e.storage_fails)
                   => AnsweredNotFound("sellers") /\ id \notin DOMAIN sellers'
       /\ \A id \in IdSpace \ DOMAIN blog_posts :
             /\ blog_detail(id) => AnsweredNotFound("blog_index")
             /\ blog_delete(id) => AnsweredNotFound("blog_index")
             /\ \A m \in Methods, f \in {BlogForm2, BlogFormBlank} :
                   blog_edit(id, m, f)
                   => AnsweredNotFound("blog_index") /\ id \notin DOMAIN blog_posts'
       /\ \A id \in IdSpace, fid \in IdSpace \ DOMAIN buyer_followups :
             /\ buyer_followup_delete(id, fid) => AnsweredNotFound("buyer_detail")
             /\ \A m \in Methods :
                   buyer_followup_edit(id, fid, m, FollowupForm2)
                   => AnsweredNotFound("buyer_detail")
       /\ \A id \in IdSpace, fid \in IdSpace \ DOMAIN seller_followups :
             /\ seller_followup_delete(id, fid) => AnsweredNotFound("seller_detail")
             /\ \A m \in Methods :
                   seller_followup_edit(id, fid, m, FollowupForm2)
                   => AnsweredNotFound("seller_detail")]_vars

----------------------------------------------------------------------------
(* SpecBlog: blog_new and blog_edit with category checkboxes and new       *)
(* category entries                                                        *)

CheckboxLists ==
    {<<>>, << <<"c">> >>, << <<"c">>, <<" ", "c">> >>,
     << <<" ">>, <<"b">>, <<"c">>, <<"b", " ">> >>}

\* the entries typed into new_categories between the commas
NewCategoryEntries ==
    {<<>>, << <<" ">> >>, << <<"b">>, <<" ", "c">>, <<>> >>,
     << <<"d">>, <<"b">>, <<"d">> >>}

CategoryForm(checked, entries) ==
    ("title" :> <<"a">>) @@ ("categories" :> checked)
    @@ ("new_categories" :> Join(entries, <<",">>))

NextBlog ==
    \/ UNCHANGED edits /\ Tick
    \/ UNCHANGED edits /\ \E id \in IdSpace, c \in CheckboxLists, n \in NewCategoryEntries :
          CanAdd /\ blog_new("POST", CategoryForm(c, n), id)
    \/ UNCHANGED edits /\ \E id \in IdSpace, c \in CheckboxLists, n \in NewCategoryEntries :
          blog_edit(id, "POST", CategoryForm(c, n))
    \/ UNCHANGED edits /\ \E id \in IdSpace : blog_delete(id)

SpecBlog == Init /\ [][NextBlog]_vars

\* the trimmed non-blank values of list, each at its first occurrence
FirstOccurrences(list) ==
    LET t == [i \in DOMAIN list |-> Strip(list[i])]
    IN AtPositions(t, {i \in DOMAIN t : t[i] # <<>> /\ \A j \in 1..(i - 1) : t[j] # t[i]})

CategoriesStored(post, checked, entries) ==
    LET expected == FirstOccurrences(checked \o entries)
    IN /\ post["categories"] = expected
       /\ post["category"] = (IF expected = <<>> THEN <<>> ELSE expected[1])

\* C17: blog_new and blog_edit store as categories the checked values
\* followed by the comma-separated new entries, each trimmed, blanks
\* dropped, each value only at its first occurrence, and as category the
\* first element of that list or the empty string.
C17_MergedCategories ==
    [][\A id \in IdSpace, c \in CheckboxLists, n \in NewCategoryEntries :
          /\ (resp'.route = "blog_new" /\ blog_new("POST", CategoryForm(c, n), id))
             => CategoriesStored(blog_posts'[id], c, n)
          /\ (resp'.route = "blog_edit" /\ id \in DOMAIN blog_posts
                /\ blog_edit(id, "POST", CategoryForm(c, n)))
             => CategoriesStored(blog_posts'[id], c, n)]_vars

\* an edit stored the two distinct categories of a request that sent one
\* of them three times
C17_Witness ==
    /\ resp.route = "blog_edit"
    /\ resp.flash = "post_updated"
    /\ \E id \in DOMAIN blog_posts :
          /\ blog_posts[id]["categories"] = << <<"c">>, <<"b">> >>
          /\ blog_posts[id]["category"] = <<"c">>

----------------------------------------------------------------------------
(* The four sort keys of the list service                                  *)

SortKeys == {"created_at_asc", "created_at_desc", "name_asc", "name_desc"}

\* list is in the order sort_by asks for; the name of a post is its title
OrderedBy(list, sort_by, name_field) ==
    LET key(d) == IF sort_by \in {"name_asc", "name_desc"}
                  THEN (IF Falsy(Get(d, name_field, None)) THEN <<>> ELSE d[name_field])
                  ELSE parse_created_at(d)
    IN \A i, j \in DOMAIN list :
          i < j => IF sort_by \in {"created_at_asc", "name_asc"}
                   THEN ~StrLess(key(list[j]), key(list[i]))
                   ELSE ~StrLess(key(list[i]), key(list[j]))

\* C18: buyers, sellers and blog posts are listed alike: the filtered
\* result is in the order of the requested sort key, for created-time
\* ascending and descending and name ascending and descending.
C18_ListsOrderedBySortKey ==
    \A k \in SortKeys :
        /\ OrderedBy(BuyersList(buyers, [NoQuery EXCEPT !.sort_by = k]), k, "name")
        /\ OrderedBy(SellersList(sellers, [NoQuery EXCEPT !.sort_by = k]), k, "name")
        /\ OrderedBy(BlogList(blog_posts, [NoBlogQuery EXCEPT !.sort_by = k]), k, "title")

----------------------------------------------------------------------------
(* Stamps of an update                                                     *)

CreationFields == {"created_at", "created_by_id", "created_by_name"}

\* new carries the stamp of an update made now by the session's user, and
\* the creation stamp of old
UpdateStamped(old, new) ==
    /\ "updated_at" \in DOMAIN new /\ new["updated_at"] = isoformat(clock)
    /\ "updated_by_id" \in DOMAIN new /\ new["updated_by_id"] = session["user_id"]
    /\ "updated_by_name" \in DOMAIN new /\ new["updated_by_name"] = session["user_name"]
    /\ \A k \in CreationFields :
          /\ (k \in DOMAIN old) = (k \in DOMAIN new)
          /\ k \in DOMAIN old => new[k] = old[k]

\* C19: every update of a buyer, seller, blog post or followup that
\* succeeds stamps the stored document with updated_at and the id and name
\* of the session's user, and leaves created_at, created_by_id and
\* created_by_name as they were.
C19_UpdatesStamped ==
    [][LoggedIn =>
       /\ resp'.flash = "buyer_updated"
             => \A id \in DOMAIN buyers :
                   buyers'[id] # buyers[id] => UpdateStamped(buyers[id], buyers'[id])
       /\ resp'.flash = "seller_updated"
             => \A id \in DOMAIN sellers :
                   sellers'[id] # sellers[id] => UpdateStamped(sellers[id], sellers'[id])
       /\ resp'.flash = "post_updated"
             => \A id \in DOMAIN blog_posts :
                   blog_posts'[id] # blog_posts[id]
                   => UpdateStamped(blog_posts[id], blog_posts'[id])
       /\ resp'.flash = "followup_updated"
             => /\ \A id \in DOMAIN buyer_followups :
                      buyer_followups'[id] # buyer_followups[id]
                      => UpdateStamped(buyer_followups[id], buyer_followups'[id])
                /\ \A id \in DOMAIN seller_followups :
                      seller_followups'[id] # seller_followups[id]
                      => UpdateStamped(seller_followups[id], seller_followups'[id])]_vars

----------------------------------------------------------------------------
(* SpecRace: two edit requests for one buyer or seller, each served in     *)
(* three steps: read the record, write the update, delete the removed      *)
(* photos and answer                                                       *)

\* uuid4 gives each request its own object names
RaceSuffix(r) == IF r = 1 THEN "u1" ELSE "u2"

RaceEdits(r) ==
    { NoPhotoEdit,
      [NoPhotoEdit EXCEPT !.delete_raw = << <<"0">> >>],
      [NoPhotoEdit EXCEPT !.delete_raw = << <<"x">>, <<"-", "1">>, <<"1">> >>,
                          !.files = <<GoodFile>>, !.sfx = <<RaceSuffix(r)>>,
                          !.storage_fails = TRUE],
      [NoPhotoEdit EXCEPT !.files = <<BadExtFile, GoodFile>>,
                          !.sfx = <<RaceSuffix(r), RaceSuffix(r)>>],
      [NoPhotoEdit EXCEPT !.files = <<UndecodableFile>>, !.sfx = <<RaceSuffix(r)>>] }

Collection(coll) == IF coll = "buyers" THEN buyers ELSE sellers

\* doc_ref.get(), the existence test and the name test of an edit POST
edit_read(r, coll, id, form, pe) ==
    /\ LoggedIn
    /\ edits.req[r].pc = "idle"
    /\ id \in DOMAIN Collection(coll)
    /\ coll = "buyers" => FormStrip(form, "name") # <<>>
    /\ edits' = [edits EXCEPT !.req[r] =
                    [pc |-> "read", coll |-> coll, id |-> id, form |-> form, pe |-> pe,
                     doc |-> doc_to_dict(id, Collection(coll)[id]),
                     deleted_urls |-> <<>>]]
    /\ UNCHANGED <<session, dbvars, blobs, clock, resp>>

\* the uploads and doc_ref.update(updated), from the record read earlier
edit_update(r) ==
    LET e == edits.req[r]
        ph == PhotoEdit(e.doc, e.pe.delete_raw, e.pe.files, e.pe.sfx, e.coll, IdStr(e.id))
        updated == ph.fields @@ (IF e.coll = "buyers"
                                 THEN BuyerUpdated(e.form, clock, session)
                                 ELSE SellerUpdated(e.form, clock, session))
    IN /\ e.pc = "read"
       /\ Cardinality(blobs \cup ph.created) <= MaxBlobs
       /\ blobs' = blobs \cup ph.created
       /\ IF ph.raised
          THEN /\ edits' = [edits EXCEPT !.req[r].pc = "failed"]
               /\ resp' = Response(IF e.coll = "buyers" THEN "buyer_edit" ELSE "seller_edit",
                                   "error", "500", "")
               /\ UNCHANGED dbvars
          ELSE /\ Len(ph.fields["photo_urls"]) <= MaxPhotos
               /\ IF e.coll = "buyers"
                  THEN /\ buyers' = [buyers EXCEPT ![e.id] = DocUpdate(@, updated)]
                       /\ UNCHANGED sellers
                  ELSE /\ sellers' = [sellers EXCEPT ![e.id] = DocUpdate(@, updated)]
                       /\ UNCHANGED buyers
               /\ edits' = [edits EXCEPT !.req[r].pc = "updated",
                                         !.req[r].deleted_urls = ph.deleted_urls,
                                         !.log = Append(@, r)]
               /\ UNCHANGED <<buyer_followups, seller_followups, blog_posts, resp>>
       /\ UNCHANGED <<session, clock>>

\* delete_storage_files(deleted_urls), flash and redirect
edit_respond(r) ==
    LET e == edits.req[r]
        del == delete_storage_files(blobs, e.deleted_urls, e.pe.storage_fails)
    IN /\ e.pc = "updated"
       /\ blobs' = del.store
       /\ resp' = IF del.raised
                  THEN Response(IF e.coll = "buyers" THEN "buyer_edit" ELSE "seller_edit",
                                "error", "500", "")
                  ELSE IF e.coll = "buyers"
                  THEN Response("buyer_edit", "redirect", "buyer_detail", "buyer_updated")
                  ELSE Response("seller_edit", "redirect", "seller_detail", "seller_updated")
       /\ edits' = [edits EXCEPT !.req[r].pc = "done"]
       /\ UNCHANGED <<session, dbvars, clock>>

InitRace ==
    /\ session = Staff
    /\ edits = NoEdits
    /\ clock = 0
    /\ resp = Response("", "", "", "")
    /\ buyer_followups = EmptyDict
    /\ seller_followups = EmptyDict
    /\ blog_posts = EmptyDict
    /\ \/ buyers \in [{1} -> ViewBuyers] /\ sellers = EmptyDict
       \/ buyers = EmptyDict /\ sellers \in [{1} -> ViewSellers]
    /\ blobs = StoredBlobs(buyers) \cup StoredBlobs(sellers)

NextRace ==
    \/ UNCHANGED edits /\ Tick
    \/ \E r \in Requests, f \in {BuyerForm1, BuyerForm2} :
          \E pe \in RaceEdits(r) : edit_read(r, "buyers", 1, f, pe)
    \/ \E r \in Requests, f \in {SellerForm1, SellerForm2} :
          \E pe \in RaceEdits(r) : edit_read(r, "sellers", 1, f, pe)
    \/ \E r \in Requests : edit_update(r)
    \/ \E r \in Requests : edit_respond(r)

SpecRace == InitRace /\ [][NextRace]_vars

\* the photo list an edit of doc with the photo inputs pe must write
ExpectedPhotos(doc, pe, folder, id) ==
    AtPositions(StoredPhotos(doc), DOMAIN StoredPhotos(doc) \ Submitted(StoredPhotos(doc), pe.delete_raw))
    \o UploadedUrls(pe.files, pe.sfx, folder, id)

\* the stored record holds what request r submitted
HoldsWriteOf(r) ==
    LET e == edits.req[r]
        doc == Collection(e.coll)[e.id]
        photos == ExpectedPhotos(e.doc, e.pe, e.coll, e.id)
    IN /\ \A k \in (IF e.coll = "buyers" THEN BuyerEditFields ELSE SellerFormFields) :
             doc[k] = Strip(Get(e.form, k, <<>>))
       /\ doc["photo_urls"] = photos
       /\ doc["photo_url"] = (IF photos = <<>> THEN <<>> ELSE photos[1])

BothDone == \A r \in Requests : edits.req[r].pc = "done"

\* C20: when two edit requests for the same buyer or seller have both
\* completed, whatever the order of their steps, both updates were made
\* and every submitted field, photo_urls and photo_url of the stored
\* record hold what the request whose update ran last wrote.
C20_LastWriteWins ==
    BothDone
    => /\ Len(edits.log) = 2
       /\ edits.req[1].coll = edits.req[2].coll /\ edits.req[1].id = edits.req[2].id
       /\ HoldsWriteOf(edits.log[2])

\* request 1 read the record before request 2 removed its first photo, and
\* wrote last: the photo is listed again
C20_Witness ==
    /\ BothDone
    /\ edits.log = <<2, 1>>
    /\ edits.req[1].form # edits.req[2].form
    /\ edits.req[2].pe.delete_raw = << <<"0">> >>
    /\ edits.req[1].pe = NoPhotoEdit
    /\ StoredPhotos(edits.req[2].doc) # <<>>
    /\ StoredPhotos(Collection(edits.req[1].coll)[1]) = StoredPhotos(edits.req[2].doc)

----------------------------------------------------------------------------
(* Followups and their parents                                             *)

\* every followup of coll carries in field the id of a record of parents
ParentsExist(coll, field, parents) ==
    \A f \in DOMAIN coll :
        /\ field \in DOMAIN coll[f]
        /\ \E id \in DOMAIN parents : coll[f][field] = IdStr(id)

\* C21: in every reachable state every buyer followup has the buyer_id of
\* a stored buyer and every seller followup the seller_id of a stored
\* seller.
C21_FollowupsHaveParents ==
    /\ ParentsExist(buyer_followups, "buyer_id", buyers)
    /\ ParentsExist(seller_followups, "seller_id", sellers)

----------------------------------------------------------------------------
(* Stored photo URLs and the bucket                                        *)

\* every URL in the photo_urls of the records of coll names a stored object
PhotosStored(coll) ==
    \A id \in DOMAIN coll :
        "photo_urls" \in DOMAIN coll[id]
        => \A i \in DOMAIN coll[id]["photo_urls"] :
              PointsToStored(coll[id]["photo_urls"][i])

\* C22: however edit requests for one record interleave, every URL in a
\* stored photo_urls names an object that is still in the bucket.
C22_StoredPhotosExist ==
    /\ PhotosStored(buyers)
    /\ PhotosStored(sellers)

----------------------------------------------------------------------------
(* SpecPhotos: records created and then edited, with photos                *)

NextPhotos ==
    \/ UNCHANGED edits /\ Login
    \/ UNCHANGED edits /\ \E file \in {NoFile, GoodFile}, id \in IdSpace, sfx \in Suffixes :
          CanAdd /\ buyers_new(BuyerForm1, file, id, sfx)
    \/ UNCHANGED edits /\ \E u \in NewUploads, id \in IdSpace :
          CanAdd /\ sellers_new(SellerForm1, u.files, u.sfx, id)
    \/ UNCHANGED edits /\ \E id \in IdSpace, pe \in PhotoEdits :
          buyer_edit(id, "POST", BuyerForm2, pe.delete_raw, pe.files, pe.sfx, pe.storage_fails)
    \/ UNCHANGED edits /\ \E id \in IdSpace, pe \in PhotoEdits :
          seller_edit(id, "POST", SellerForm2, pe.delete_raw, pe.files, pe.sfx, pe.storage_fails)
    \/ UNCHANGED edits /\ \E id \in IdSpace : buyer_delete(id)
    \/ UNCHANGED edits /\ \E id \in IdSpace : seller_delete(id)

SpecPhotos == Init /\ [][NextPhotos]_vars

\* photo_url of doc is the first of its photo_urls, or empty with them
FirstPhotoAgrees(doc) ==
    "photo_urls" \in DOMAIN doc
    => /\ "photo_url" \in DOMAIN doc
       /\ doc["photo_url"] = (IF doc["photo_urls"] = <<>> THEN <<>> ELSE doc["photo_urls"][1])

\* C23: in every reachable state every buyer and seller that has a
\* photo_urls field has as photo_url the first element of photo_urls, or
\* the empty string when photo_urls is empty.
C23_PhotoUrlIsFirst ==
    /\ \A id \in DOMAIN buyers : FirstPhotoAgrees(buyers[id])
    /\ \A id \in DOMAIN sellers : FirstPhotoAgrees(sellers[id])

\* an edit removed the only photo of a buyer that had the legacy photo_url
C23_Witness ==
    /\ resp.flash = "buyer_updated"
    /\ blobs = {}
    /\ \E id \in DOMAIN buyers :
          /\ "photo_urls" \in DOMAIN buyers[id]
          /\ buyers[id]["photo_urls"] = <<>>
          /\ buyers[id]["photo_url"] = <<>>
          /\ "created_at" \notin DOMAIN buyers[id]

----------------------------------------------------------------------------
(* The session over logins and logouts                                     *)

\* the routes wrapped by login_required
GuardedRoutes ==
    RecordRoutes \ {"blog_index", "blog_new", "blog_detail", "blog_edit", "blog_delete"}

UserKeys == {"user_id", "user_name", "user_email"}

AllOrNone(sess) == UserKeys \subseteq DOMAIN sess \/ UserKeys \cap DOMAIN sess = {}

\* C24: the session's user_id, user_name and user_email are all present or
\* all absent; user_id appears only by a login that succeeds and is absent
\* once logout has answered, so it is held only if a login succeeded after
\* the last logout; and while it is absent every route wrapped by
\* login_required answers with the redirect to login and changes nothing.
C24_SessionBinary ==
    /\ []AllOrNone(session)
    /\ [](resp.route = "logout" => ~LoggedIn)
    /\ [][/\ ("user_id" \in DOMAIN session' /\ ~LoggedIn)
             => /\ resp'.route = "login"
                /\ resp'.flash = "welcome"
                /\ \E u \in DOMAIN users : StoresUser(session', u)
          /\ (~LoggedIn /\ resp' # resp /\ resp'.route \in GuardedRoutes)
             => /\ RedirectedToLogin(resp')
                /\ UNCHANGED <<session, dbvars, blobs>>]_vars

\* a user created a buyer and logged out, and the next request for the
\* buyer list was sent to the login form
C24_Witness ==
    /\ ~LoggedIn
    /\ resp.route = "buyers"
    /\ RedirectedToLogin(resp)
    /\ \E id \in DOMAIN buyers : "created_by_id" \in DOMAIN buyers[id]

----------------------------------------------------------------------------
(* Followup requests and the parent id of their route                      *)

\* the step changed or removed followup fid of coll
Touched(coll, after, fid) == fid \notin DOMAIN after \/ after[fid] # coll[fid]

\* C25: a followup edit or delete request sent under /buyers/<buyer_id>
\* (or /sellers/<seller_id>) changes or removes followup fid only if the
\* followup's buyer_id (seller_id) is the id of the route, and an edit
\* leaves the followup's parent id as it was.
C25_FollowupUnderItsParent ==
    [][/\ resp'.route \in {"buyer_followup_edit", "buyer_followup_delete"}
          => \A id \in IdSpace, fid \in DOMAIN buyer_followups :
                /\ ((buyer_followup_edit(id, fid, "POST", FollowupForm2)
                        \/ buyer_followup_delete(id, fid))
                      /\ Touched(buyer_followups, buyer_followups', fid))
                   => buyer_followups[fid]["buyer_id"] = IdStr(id)
                /\ fid \in DOMAIN buyer_followups'
                   => buyer_followups'[fid]["buyer_id"] = buyer_followups[fid]["buyer_id"]
       /\ resp'.route \in {"seller_followup_edit", "seller_followup_delete"}
          => \A id \in IdSpace, fid \in DOMAIN seller_followups :
                /\ ((seller_followup_edit(id, fid, "POST", FollowupForm2)
                        \/ seller_followup_delete(id, fid))
                      /\ Touched(seller_followups, seller_followups', fid))
                   => seller_followups[fid]["seller_id"] = IdStr(id)
                /\ fid \in DOMAIN seller_followups'
                   => seller_followups'[fid]["seller_id"] = seller_followups[fid]["seller_id"]]_vars

============================================================================
